---- MODULE Spec2Model ----
(***************************************************************************)
(* Model of the data aggregation layer of the protection-device management *)
(* application: the DataManager singleton (src/data_manager.py), its load  *)
(* steps, its read and summary operations, and the clear-log handler of    *)
(* the script-maintenance window (src/script_maintenance.py).              *)
(*                                                                         *)
(* A Python str is a sequence of one-character strings, so that strip(),   *)
(* lower() and concatenation are computed rather than assumed.  Values     *)
(* that are not strings (pandas NaN, Python None, an absent dict key, a    *)
(* number) are one-element sequences holding a longer tag, which no str    *)
(* can equal.                                                              *)
(***************************************************************************)
EXTENDS Integers, Sequences, FiniteSets, TLC

VARIABLES
    files,        \* the source files and directories on disk
    instance,     \* DataManager._instance: 0 is None, else the object's id
    initialized,  \* DataManager._initialized
    cache,        \* self.cache of the DataManager object
    pc,           \* "idle" (control with the caller) or "loading"
    op,           \* the handler that is running _load_all_data
    step,         \* index in LoadOrder of the next load step, 0 when idle
    done,         \* load steps already run in the current load cycle
    objects,      \* DataManager objects allocated so far
    loadCalls,    \* calls of _load_all_data so far
    getCalls,     \* calls of get_data_manager() so far
    refreshCalls, \* calls of refresh_data() so far
    returned,     \* object returned by the last get_data_manager()
    lastOp,       \* the last operation that returned to the caller
    prevCache,    \* the snapshot when the last get/refresh call started
    lastLoad,     \* the handler of the last load cycle that ended
    repeat,       \* the current refresh_data() follows another one, with no
                  \* source changed in between
    dirty,        \* a source changed since the last load cycle ended
    changes,      \* changes made to the sources so far
    shown,        \* the five summary strings as last displayed
    window,       \* the script-maintenance window's local references
    got           \* what the relay-patterns page last read

vars == <<files, instance, initialized, cache, pc, op, step, done, objects,
          loadCalls, getCalls, refreshCalls, returned, lastOp, prevCache,
          lastLoad, repeat, dirty, changes, shown, window, got>>

----------------------------------------------------------------------------
(* Bounds of the model *)

MaxCalls == 3
MaxChanges == 1
MaxLines == 2
MaxRows == 2
MaxRelayRows == 3
MaxRuns == 3

----------------------------------------------------------------------------
(* Python values *)

NaN == <<"NaN">>
PyNone == <<"None">>
Absent == <<"absent">>
PyNumber == <<"number">>
Unknown == <<"U", "n", "k", "n", "o", "w", "n">>
DotCsv == <<".", "c", "s", "v">>

IsStr(v) == \A i \in 1..Len(v) : v[i] \notin {"NaN", "None", "absent", "number"}

\* the characters of the model's strings in code-point order
Alphabet == <<" ", ".", "A", "B", "a", "b", "c", "s", "t", "v", "x">>

Ord(ch) == CHOOSE i \in 1..Len(Alphabet) : Alphabet[i] = ch

LowerChar(ch) == IF ch = "A" THEN "a" ELSE IF ch = "B" THEN "b" ELSE ch

Lower(s) == [i \in 1..Len(s) |-> LowerChar(s[i])]

RECURSIVE LStrip(_)
LStrip(s) == IF s # <<>> /\ Head(s) = " " THEN LStrip(Tail(s)) ELSE s

RECURSIVE RStrip(_)
RStrip(s) ==
    IF s # <<>> /\ s[Len(s)] = " " THEN RStrip(SubSeq(s, 1, Len(s) - 1)) ELSE s

Strip(s) == RStrip(LStrip(s))

\* s < t in Python's string order
RECURSIVE StrLess(_, _)
StrLess(s, t) ==
    IF t = <<>> THEN FALSE
    ELSE IF s = <<>> THEN TRUE
    ELSE IF Head(s) # Head(t) THEN Ord(Head(s)) < Ord(Head(t))
    ELSE StrLess(Tail(s), Tail(t))

EndsWith(s, suffix) ==
    /\ Len(s) >= Len(suffix)
    /\ SubSeq(s, Len(s) - Len(suffix) + 1, Len(s)) = suffix

Range(s) == {s[i] : i \in 1..Len(s)}

Contains(s, x) == \E i \in 1..Len(s) : s[i] = x

\* list(dict.fromkeys(s)): duplicates removed, first-seen order kept
RECURSIVE Dedup(_)
Dedup(s) ==
    IF s = <<>> THEN <<>>
    ELSE LET r == Dedup(SubSeq(s, 1, Len(s) - 1))
             x == s[Len(s)]
         IN  IF Contains(r, x) THEN r ELSE Append(r, x)

RECURSIVE SumSeq(_)
SumSeq(s) == IF s = <<>> THEN 0 ELSE Head(s) + SumSeq(Tail(s))

\* str(cell).strip() if pd.notna(cell) else ''
CellStr(cell) == IF cell = NaN THEN <<>> ELSE Strip(cell)

----------------------------------------------------------------------------
(* The snapshot *)

EmptyDict == [k \in {} |-> <<>>]

DictPut(d, k, v) == [x \in (DOMAIN d) \cup {k} |-> IF x = k THEN v ELSE d[x]]

DictGet(d, k, default) == IF k \in DOMAIN d THEN d[k] ELSE default

\* DataCache(): every field at its dataclass default
DataCache ==
    [relay_patterns_seq |-> <<>>,
     relay_patterns_regional |-> <<>>,
     mapping_files |-> <<>>,
     type_mapping_entries |-> <<>>,
     script_run_logs |-> <<>>,
     failed_transfers |-> <<>>,
     relay_models |-> <<>>,
     fuse_models |-> <<>>,
     mapping_by_ips_pattern |-> EmptyDict,
     mapping_by_pf_model |-> EmptyDict,
     validated_pf_devices |-> {},
     validated_mapping_files |-> {},
     fuse_datasheets |-> {},
     ips_total_records_seq |-> 0,
     ips_total_records_regional |-> 0,
     mapping_parse_stats |-> [total |-> 0, success |-> 0],
     script_log_stats |-> [total_runs |-> 0, total_failures |-> 0],
     relay_models_last_modified |-> <<>>,
     fuse_models_last_modified |-> <<>>]

MappingFile(filename, ips_patterns, pf_models, validated) ==
    [filename |-> filename, ips_patterns |-> ips_patterns,
     pf_models |-> pf_models, validated |-> validated]

RelayPattern(pattern, asset, eql_population, source, mapping_file) ==
    [pattern |-> pattern, asset |-> asset, eql_population |-> eql_population,
     source |-> source, powerfactory_model |-> <<>>,
     mapping_file |-> mapping_file]

TypeMappingEntry(ips, pf_model, mapping_file) ==
    [ips |-> ips, pf_model |-> pf_model, mapping_file |-> mapping_file]

\* success_percentage is a float: it is kept exact, as the fraction <<n, d>>
ScriptRunLog(timestamp, substation, num_transfers, success_percentage) ==
    [timestamp |-> timestamp, substation |-> substation,
     num_transfers |-> num_transfers,
     success_percentage |-> success_percentage]

FailedTransfer(timestamp, substation, device_name, result) ==
    [timestamp |-> timestamp, substation |-> substation,
     device_name |-> device_name, result |-> result]

RelayModel(manufacturer, model, used_in_eql, model_validated, exists) ==
    [manufacturer |-> manufacturer, model |-> model,
     used_in_eql |-> used_in_eql, model_validated |-> model_validated,
     ips_mapping_file_exists |-> exists]

FuseModel(fuse, fuse_type, eql_standard, fuse_datasheet) ==
    [fuse |-> fuse, fuse_type |-> fuse_type, eql_standard |-> eql_standard,
     fuse_datasheet |-> fuse_datasheet]

Yes == <<"Y", "e", "s">>

----------------------------------------------------------------------------
(* The sources on disk.  A file is [exists, rows, mdate]: rows are the data *)
(* rows pandas yields (the header row names the columns), the lines of the  *)
(* log, or the set of file names in the mapping directory.                  *)

File(rows) == [exists |-> TRUE, rows |-> rows, mdate |-> <<"d">>]

NoFile == [exists |-> FALSE, rows |-> <<>>, mdate |-> <<>>]

NoDir == [exists |-> FALSE, rows |-> {}, mdate |-> <<>>]

Missing(s) == IF s = "mapping_dir" THEN NoDir ELSE NoFile

Sources == {"pf_validation", "mapping_validation", "fuse_datasheet",
            "type_mapping", "mapping_dir", "seq", "regional", "log",
            "relay_models", "fuse_models"}

----------------------------------------------------------------------------
(* Step 1: the validation logs *)

\* the loop over df[first_col].dropna() shared by the three readers
FirstColumnSet(file) ==
    IF ~file.exists THEN {}
    ELSE {Strip(v) : v \in {x \in Range(file.rows) : x # NaN}} \ {<<>>}

load_pf_device_validation_log(c, f) ==
    [c EXCEPT !.validated_pf_devices = FirstColumnSet(f.pf_validation)]

load_mapping_validation_log(c, f) ==
    [c EXCEPT !.validated_mapping_files = FirstColumnSet(f.mapping_validation)]

load_fuse_datasheet_log(c, f) ==
    [c EXCEPT !.fuse_datasheets = FirstColumnSet(f.fuse_datasheet)]

load_validation_logs(c, f) ==
    load_fuse_datasheet_log(
        load_mapping_validation_log(load_pf_device_validation_log(c, f), f), f)

----------------------------------------------------------------------------
(* Step 2: type_mapping.csv, rows <<IPS, PF_MODEL, MAPPING_FILE>> *)

\* every row kept, whatever its MAPPING_FILE cell
TypeMappingRowsKeepAll(rows) ==
    [i \in 1..Len(rows) |->
        TypeMappingEntry(CellStr(rows[i][1]), CellStr(rows[i][2]),
                         CellStr(rows[i][3]))]

RECURSIVE TypeMappingRows(_)
TypeMappingRows(rows) ==
    IF rows = <<>> THEN <<>>
    ELSE LET row == Head(rows)
             mapping_file == CellStr(row[3])
             rest == TypeMappingRows(Tail(rows))
         IN  IF mapping_file # <<>>
             THEN <<TypeMappingEntry(CellStr(row[1]), CellStr(row[2]),
                                     mapping_file)>> \o rest
             ELSE rest

load_type_mapping(c, f) ==
    [c EXCEPT !.type_mapping_entries =
        IF f.type_mapping.exists THEN TypeMappingRows(f.type_mapping.rows)
        ELSE <<>>]

----------------------------------------------------------------------------
(* Step 3: the mapping directory *)

Stem(filename) == SubSeq(filename, 1, Len(filename) - Len(DotCsv))

\* the orders in which MAPPING_DIR.glob('*.csv') may list the directory
GlobCsv(names) ==
    LET csv == {n \in names : EndsWith(n, DotCsv)}
    IN  {s \in [1..Cardinality(csv) -> csv] : Range(s) = csv}

\* list.sort(key=lambda x: x.filename): the names compared as they are
RECURSIVE InsertByNameCaseSensitive(_, _)
InsertByNameCaseSensitive(sorted, mf) ==
    IF sorted = <<>> THEN <<mf>>
    ELSE IF StrLess(mf.filename, Head(sorted).filename)
         THEN <<mf>> \o sorted
         ELSE <<Head(sorted)>> \o InsertByNameCaseSensitive(Tail(sorted), mf)

\* list.sort(key=lambda x: x.filename.lower()): stable insertion
RECURSIVE InsertByName(_, _)
InsertByName(sorted, mf) ==
    IF sorted = <<>> THEN <<mf>>
    ELSE IF StrLess(Lower(mf.filename), Lower(Head(sorted).filename))
         THEN <<mf>> \o sorted
         ELSE <<Head(sorted)>> \o InsertByName(Tail(sorted), mf)

SortByNameKeep(s) == s

RECURSIVE SortByName(_)
SortByName(s) ==
    IF s = <<>> THEN <<>>
    ELSE InsertByName(SortByName(SubSeq(s, 1, Len(s) - 1)), s[Len(s)])

\* the stems compared without regard to case
MatchingEntriesIgnoreCase(entries, stem) ==
    SelectSeq(entries, LAMBDA e : Lower(e.mapping_file) = Lower(stem))

MatchingEntries(entries, stem) ==
    SelectSeq(entries, LAMBDA e : e.mapping_file = stem)

FieldsOf(entries, field) ==
    LET nonEmpty == SelectSeq(entries, LAMBDA e : e[field] # <<>>)
    IN  Dedup([i \in 1..Len(nonEmpty) |-> nonEmpty[i][field]])

\* the validation set searched for the filename, extension included
MappingFileOfByFilename(c, filename) ==
    LET matching == MatchingEntries(c.type_mapping_entries, Stem(filename))
    IN  MappingFile(filename,
                    FieldsOf(matching, "ips"),
                    FieldsOf(matching, "pf_model"),
                    IF filename \in c.validated_mapping_files
                    THEN Yes ELSE <<>>)

MappingFileOf(c, filename) ==
    LET matching == MatchingEntries(c.type_mapping_entries, Stem(filename))
    IN  MappingFile(filename,
                    FieldsOf(matching, "ips"),
                    FieldsOf(matching, "pf_model"),
                    IF Stem(filename) \in c.validated_mapping_files
                    THEN Yes ELSE <<>>)

\* only the files some type-mapping entry names are kept
load_mapping_files_only_mapped(c, f, csv_files) ==
    IF ~f.mapping_dir.exists
    THEN [c EXCEPT !.mapping_files = <<>>,
                   !.mapping_parse_stats = [total |-> 0, success |-> 0]]
    ELSE LET listed == [i \in 1..Len(csv_files) |->
                            MappingFileOf(c, csv_files[i])]
             withMappings == SelectSeq(listed, LAMBDA m :
                                 m.ips_patterns # <<>> \/ m.pf_models # <<>>)
         IN  [c EXCEPT !.mapping_files = SortByName(withMappings),
                       !.mapping_parse_stats =
                           [total |-> Len(csv_files),
                            success |-> Len(withMappings)]]

\* csv_files: the directory listing, one of GlobCsv(f.mapping_dir.rows)
load_mapping_files(c, f, csv_files) ==
    IF ~f.mapping_dir.exists
    THEN [c EXCEPT !.mapping_files = <<>>,
                   !.mapping_parse_stats = [total |-> 0, success |-> 0]]
    ELSE LET listed == [i \in 1..Len(csv_files) |->
                            MappingFileOf(c, csv_files[i])]
             withMappings == SelectSeq(listed, LAMBDA m :
                                 m.ips_patterns # <<>> \/ m.pf_models # <<>>)
         IN  [c EXCEPT !.mapping_files = SortByName(listed),
                       !.mapping_parse_stats =
                           [total |-> Len(csv_files),
                            success |-> Len(withMappings)]]

----------------------------------------------------------------------------
(* Step 4: the two indexes *)

\* first write wins
RECURSIVE IpsIndexFirst(_)
IpsIndexFirst(entries) ==
    IF entries = <<>> THEN EmptyDict
    ELSE LET d == IpsIndexFirst(SubSeq(entries, 1, Len(entries) - 1))
             e == entries[Len(entries)]
         IN  IF e.ips # <<>> /\ e.mapping_file # <<>> /\ e.ips \notin DOMAIN d
             THEN DictPut(d, e.ips, e.mapping_file \o DotCsv)
             ELSE d

\* the stem is stored without the extension
RECURSIVE IpsIndexNoExtension(_)
IpsIndexNoExtension(entries) ==
    IF entries = <<>> THEN EmptyDict
    ELSE LET d == IpsIndexNoExtension(SubSeq(entries, 1, Len(entries) - 1))
             e == entries[Len(entries)]
         IN  IF e.ips # <<>> /\ e.mapping_file # <<>>
             THEN DictPut(d, e.ips, e.mapping_file)
             ELSE d

RECURSIVE IpsIndex(_)
IpsIndex(entries) ==
    IF entries = <<>> THEN EmptyDict
    ELSE LET d == IpsIndex(SubSeq(entries, 1, Len(entries) - 1))
             e == entries[Len(entries)]
         IN  IF e.ips # <<>> /\ e.mapping_file # <<>>
             THEN DictPut(d, e.ips, e.mapping_file \o DotCsv)
             ELSE d

\* every referencing entry appends its filename, seen before or not
RECURSIVE PfModelIndexKeepDuplicates(_)
PfModelIndexKeepDuplicates(entries) ==
    IF entries = <<>> THEN EmptyDict
    ELSE LET d == PfModelIndexKeepDuplicates(
                      SubSeq(entries, 1, Len(entries) - 1))
             e == entries[Len(entries)]
         IN  IF e.pf_model # <<>> /\ e.mapping_file # <<>>
             THEN DictPut(d, e.pf_model,
                          Append(DictGet(d, e.pf_model, <<>>),
                                 e.mapping_file \o DotCsv))
             ELSE d

RECURSIVE PfModelIndex(_)
PfModelIndex(entries) ==
    IF entries = <<>> THEN EmptyDict
    ELSE LET d == PfModelIndex(SubSeq(entries, 1, Len(entries) - 1))
             e == entries[Len(entries)]
             name == e.mapping_file \o DotCsv
             old == DictGet(d, e.pf_model, <<>>)
         IN  IF e.pf_model # <<>> /\ e.mapping_file # <<>>
             THEN DictPut(d, e.pf_model,
                          IF Contains(old, name) THEN old
                          ELSE Append(old, name))
             ELSE d

build_mapping_lookup(c, f) ==
    [c EXCEPT !.mapping_by_ips_pattern = IpsIndex(c.type_mapping_entries),
              !.mapping_by_pf_model = PfModelIndex(c.type_mapping_entries)]

----------------------------------------------------------------------------
(* Step 5: the relay-pattern tables, rows <<patternname, assetname>> *)

\* patterns_list.sort(key=lambda x: x.eql_population, reverse=True): stable
RECURSIVE InsertByPopulation(_, _)
InsertByPopulation(sorted, p) ==
    IF sorted = <<>> THEN <<p>>
    ELSE IF Head(sorted).eql_population < p.eql_population
         THEN <<p>> \o sorted
         ELSE <<Head(sorted)>> \o InsertByPopulation(Tail(sorted), p)

RECURSIVE SortByPopulation(_)
SortByPopulation(s) ==
    IF s = <<>> THEN <<>>
    ELSE InsertByPopulation(SortByPopulation(SubSeq(s, 1, Len(s) - 1)),
                            s[Len(s)])

\* an unmatched pattern is given the file named after it
PatternRecordByName(c, rows, pattern, source) ==
    LET pattern_rows == SelectSeq(rows, LAMBDA r : r[1] = pattern)
    IN  RelayPattern(pattern, pattern_rows[1][2], Len(pattern_rows), source,
                     DictGet(c.mapping_by_ips_pattern, pattern,
                             pattern \o DotCsv))

PatternRecord(c, rows, pattern, source) ==
    LET pattern_rows == SelectSeq(rows, LAMBDA r : r[1] = pattern)
    IN  RelayPattern(pattern, pattern_rows[1][2], Len(pattern_rows), source,
                     DictGet(c.mapping_by_ips_pattern, pattern, <<>>))

\* the exception raised inside the try block of the reader, if any:
\* pd.read_csv raises FileNotFoundError; df[df['patternname'] == NaN] is
\* empty, so .iloc[0] raises IndexError
RelayFileError(file) ==
    IF ~file.exists THEN "FileNotFoundError"
    ELSE IF \E i \in 1..Len(file.rows) : file.rows[i][1] = NaN
         THEN "IndexError"
         ELSE "none"

load_relay_patterns_from_file(c, file, source) ==
    IF RelayFileError(file) = "FileNotFoundError" THEN c
    ELSE
      LET rows == file.rows
          counted == IF source = "SEQ"
                     THEN [c EXCEPT !.ips_total_records_seq = Len(rows)]
                     ELSE [c EXCEPT !.ips_total_records_regional = Len(rows)]
          unique_patterns == Dedup([i \in 1..Len(rows) |-> rows[i][1]])
          patterns_list == [i \in 1..Len(unique_patterns) |->
                              PatternRecord(c, rows, unique_patterns[i], source)]
      IN  \* the except clause leaves the list as _load_relay_patterns set it
          IF RelayFileError(file) = "IndexError" THEN counted
          ELSE IF source = "SEQ"
          THEN [counted EXCEPT
                    !.relay_patterns_seq = SortByPopulation(patterns_list)]
          ELSE [counted EXCEPT
                    !.relay_patterns_regional = SortByPopulation(patterns_list)]

load_relay_patterns(c, f) ==
    LET reset == [c EXCEPT !.relay_patterns_seq = <<>>,
                           !.relay_patterns_regional = <<>>]
    IN  load_relay_patterns_from_file(
            load_relay_patterns_from_file(reset, f.seq, "SEQ"),
            f.regional, "Regional")

----------------------------------------------------------------------------
(* Step 6: the script log.  A line is given by what json.loads and          *)
(* ast.literal_eval make of it:                                             *)
(*   json      "blank", "invalid", "nonobject" or "object"                  *)
(*   msg       "absent", "nonstring", "other" (a str without the marker)    *)
(*             or "marker"                                                  *)
(*   ts        the timestamp value: <<"iso", t>> and <<"isoZ", t>> (an      *)
(*             ISO-8601 str of the instant t, the latter Z-suffixed),       *)
(*             another str, Absent, PyNone or PyNumber                      *)
(*   payload   "nobrackets", "unparseable", "notlist" or "list"             *)
(*   items     the embedded list; an item is a dict                         *)
(*             [isdict |-> TRUE, SUBSTATION, DEVICE_NAME, RESULT] with      *)
(*             Absent for a missing key, or [isdict |-> FALSE] for a number *)

Item(substation, device_name, result) ==
    [isdict |-> TRUE, SUBSTATION |-> substation, DEVICE_NAME |-> device_name,
     RESULT |-> result]

NonRecord == [isdict |-> FALSE, SUBSTATION |-> Absent, DEVICE_NAME |-> Absent,
              RESULT |-> Absent]

LogLine(json, msg, ts, payload, items) ==
    [json |-> json, msg |-> msg, ts |-> ts, payload |-> payload,
     items |-> items]

\* item.get(key, default)
ItemGet(v, default) == IF v = Absent THEN default ELSE v

IsIso(ts) == Len(ts) = 2 /\ ts[1] \in {"iso", "isoZ"}

\* _format_timestamp: "raise" stands for the AttributeError of a non-str
format_timestamp(ts) ==
    IF ts \in {PyNone, PyNumber} THEN <<"raise">>
    ELSE IF IsIso(ts) THEN <<"display", ts[2]>>
    ELSE ts

FailedRows(items, formatted_timestamp) ==
    LET failed == SelectSeq(items, LAMBDA it :
                      /\ it.RESULT # Absent
                      /\ it.RESULT # PyNone
                      /\ ~(IsStr(it.RESULT) /\ Strip(it.RESULT) = <<>>))
    IN  [i \in 1..Len(failed) |->
            FailedTransfer(formatted_timestamp,
                           ItemGet(failed[i].SUBSTATION, Unknown),
                           ItemGet(failed[i].DEVICE_NAME, Unknown),
                           failed[i].RESULT)]

\* the body of the loop over log_lines; acc.raised: an exception other than
\* JSONDecodeError, ValueError and SyntaxError has left the loop
\* num_transfers counts the successful items only
ProcessLineCountSuccessful(acc, line) ==
    LET timestamp == ItemGet(line.ts, <<>>)
        formatted_timestamp == format_timestamp(timestamp)
        items == line.items
        successful_count ==
            Len(SelectSeq(items, LAMBDA it : it.RESULT = Absent))
        run == ScriptRunLog(formatted_timestamp,
                            ItemGet(items[1].SUBSTATION, Unknown),
                            successful_count,
                            <<successful_count * 100, Len(items)>>)
    IN  IF acc.raised \/ line.json \in {"blank", "invalid"} THEN acc
        ELSE IF line.json = "nonobject" THEN [acc EXCEPT !.raised = TRUE]
        ELSE IF line.msg = "nonstring" THEN [acc EXCEPT !.raised = TRUE]
        ELSE IF line.msg # "marker" THEN acc
        ELSE IF formatted_timestamp = <<"raise">>
             THEN [acc EXCEPT !.raised = TRUE]
        ELSE IF line.payload # "list" \/ items = <<>> THEN acc
        ELSE IF \E i \in 1..Len(items) : ~items[i].isdict
             THEN [acc EXCEPT !.raised = TRUE]
        ELSE [acc EXCEPT
                !.runs = Append(@, run),
                !.fails = @ \o FailedRows(items, formatted_timestamp)]

ProcessLine(acc, line) ==
    LET timestamp == ItemGet(line.ts, <<>>)
        formatted_timestamp == format_timestamp(timestamp)
        items == line.items
        successful_count ==
            Len(SelectSeq(items, LAMBDA it : it.RESULT = Absent))
        run == ScriptRunLog(formatted_timestamp,
                            ItemGet(items[1].SUBSTATION, Unknown),
                            Len(items),
                            <<successful_count * 100, Len(items)>>)
    IN  IF acc.raised \/ line.json \in {"blank", "invalid"} THEN acc
        ELSE IF line.json = "nonobject" THEN [acc EXCEPT !.raised = TRUE]
        ELSE IF line.msg = "nonstring" THEN [acc EXCEPT !.raised = TRUE]
        ELSE IF line.msg # "marker" THEN acc
        ELSE IF formatted_timestamp = <<"raise">>
             THEN [acc EXCEPT !.raised = TRUE]
        ELSE IF line.payload # "list" \/ items = <<>> THEN acc
        ELSE IF \E i \in 1..Len(items) : ~items[i].isdict
             THEN [acc EXCEPT !.raised = TRUE]
        ELSE [acc EXCEPT
                !.runs = Append(@, run),
                !.fails = @ \o FailedRows(items, formatted_timestamp)]

RECURSIVE ProcessLines(_, _)
ProcessLines(acc, lines) ==
    IF lines = <<>> THEN acc
    ELSE ProcessLines(ProcessLine(acc, Head(lines)), Tail(lines))

load_script_logs(c, f) ==
    IF ~f.log.exists
    THEN [c EXCEPT !.script_run_logs = <<>>, !.failed_transfers = <<>>,
                   !.script_log_stats = [total_runs |-> 0, total_failures |-> 0]]
    ELSE LET acc == ProcessLines([runs |-> <<>>, fails |-> <<>>,
                                  raised |-> FALSE], f.log.rows)
         IN  [c EXCEPT
                !.script_run_logs = acc.runs,
                !.failed_transfers = acc.fails,
                !.script_log_stats =
                    IF acc.raised
                    THEN [total_runs |-> 0, total_failures |-> 0]
                    ELSE [total_runs |-> Len(acc.runs),
                          total_failures |-> Len(acc.fails)]]

----------------------------------------------------------------------------
(* Steps 7 and 8: the relay models <<Manufacturer, Model, Used in EQL>> and *)
(* the fuse models <<Fuse, Type, EQL Standard>>                             *)

\* ', '.join(names)
RECURSIVE Join(_)
Join(names) ==
    IF names = <<>> THEN <<>>
    ELSE IF Len(names) = 1 THEN names[1]
    ELSE names[1] \o <<",", " ">> \o Join(Tail(names))

RelayModelOf(c, row) ==
    LET model == CellStr(row[2])
    IN  RelayModel(CellStr(row[1]), model, CellStr(row[3]),
                   IF model \in c.validated_pf_devices THEN Yes ELSE <<>>,
                   Join(DictGet(c.mapping_by_pf_model, model, <<>>)))

load_relay_models(c, f) ==
    IF ~f.relay_models.exists
    THEN [c EXCEPT !.relay_models = <<>>, !.relay_models_last_modified = <<>>]
    ELSE [c EXCEPT
            !.relay_models = [i \in 1..Len(f.relay_models.rows) |->
                                 RelayModelOf(c, f.relay_models.rows[i])],
            !.relay_models_last_modified = f.relay_models.mdate]

FuseModelOf(c, row) ==
    LET fuse == CellStr(row[1])
    IN  FuseModel(fuse, CellStr(row[2]), CellStr(row[3]),
                  IF fuse \in c.fuse_datasheets THEN Yes ELSE <<>>)

load_fuse_models(c, f) ==
    IF ~f.fuse_models.exists
    THEN [c EXCEPT !.fuse_models = <<>>, !.fuse_models_last_modified = <<>>]
    ELSE [c EXCEPT
            !.fuse_models = [i \in 1..Len(f.fuse_models.rows) |->
                                FuseModelOf(c, f.fuse_models.rows[i])],
            !.fuse_models_last_modified = f.fuse_models.mdate]

----------------------------------------------------------------------------
(* _load_all_data: the eight steps in the order the code calls them *)

LoadOrderLookupLate ==
    <<"validation_logs", "type_mapping", "mapping_files", "relay_patterns",
      "mapping_lookup", "script_logs", "relay_models", "fuse_models">>

LoadOrderShort ==
    <<"validation_logs", "type_mapping", "mapping_files", "mapping_lookup",
      "relay_patterns", "script_logs", "relay_models">>

LoadOrder == <<"validation_logs", "type_mapping", "mapping_files",
               "mapping_lookup", "relay_patterns", "script_logs",
               "relay_models", "fuse_models">>

RunStep(name, c, f, csv_files) ==
    CASE name = "validation_logs" -> load_validation_logs(c, f)
      [] name = "type_mapping" -> load_type_mapping(c, f)
      [] name = "mapping_files" -> load_mapping_files(c, f, csv_files)
      [] name = "mapping_lookup" -> build_mapping_lookup(c, f)
      [] name = "relay_patterns" -> load_relay_patterns(c, f)
      [] name = "script_logs" -> load_script_logs(c, f)
      [] name = "relay_models" -> load_relay_models(c, f)
      [] name = "fuse_models" -> load_fuse_models(c, f)

\* the fields of the snapshot each step assigns
WritesOf(name) ==
    CASE name = "validation_logs" ->
            {"validated_pf_devices", "validated_mapping_files",
             "fuse_datasheets"}
      [] name = "type_mapping" -> {"type_mapping_entries"}
      [] name = "mapping_files" -> {"mapping_files", "mapping_parse_stats"}
      [] name = "mapping_lookup" ->
            {"mapping_by_ips_pattern", "mapping_by_pf_model"}
      [] name = "relay_patterns" ->
            {"relay_patterns_seq", "relay_patterns_regional",
             "ips_total_records_seq", "ips_total_records_regional"}
      [] name = "script_logs" ->
            {"script_run_logs", "failed_transfers", "script_log_stats"}
      [] name = "relay_models" ->
            {"relay_models", "relay_models_last_modified"}
      [] name = "fuse_models" -> {"fuse_models", "fuse_models_last_modified"}

\* the fields of the snapshot each step reads without assigning them first
ReadsOf(name) ==
    CASE name = "mapping_files" ->
            {"type_mapping_entries", "validated_mapping_files"}
      [] name = "mapping_lookup" -> {"type_mapping_entries"}
      [] name = "relay_patterns" -> {"mapping_by_ips_pattern"}
      [] name = "relay_models" ->
            {"validated_pf_devices", "mapping_by_pf_model"}
      [] name = "fuse_models" -> {"fuse_datasheets"}
      [] OTHER -> {}

ExceptClausesKeyErrorOnly(name) ==
    CASE name = "relay_patterns" -> {"KeyError"}
      [] name = "mapping_lookup" -> {}
      [] OTHER -> {"Exception"}

\* the exception classes named by the except clauses around a step's body
ExceptClauses(name) ==
    CASE name = "relay_patterns" -> {"FileNotFoundError", "Exception"}
      [] name = "mapping_lookup" -> {}
      [] OTHER -> {"Exception"}

\* every exception of the model derives from Exception
Caught(clauses, exception) == "Exception" \in clauses \/ exception \in clauses

\* the exceptions raised inside a step's try blocks
StepErrors(name, f) ==
    CASE name = "relay_patterns" ->
            {RelayFileError(f.seq), RelayFileError(f.regional)} \ {"none"}
      [] name = "script_logs" ->
            IF ProcessLines([runs |-> <<>>, fails |-> <<>>, raised |-> FALSE],
                            f.log.rows).raised
            THEN {"AttributeError"} ELSE {}
      [] OTHER -> {}

\* an exception leaves the step and so _load_all_data and its caller
Escapes(name, f) ==
    \E e \in StepErrors(name, f) : ~Caught(ExceptClauses(name), e)

\* _load_all_data as one function of the disk and the directory listing
RECURSIVE LoadFrom(_, _, _, _)
LoadFrom(c, f, csv_files, k) ==
    IF k > Len(LoadOrder) THEN c
    ELSE LoadFrom(RunStep(LoadOrder[k], c, f, csv_files), f, csv_files, k + 1)

----------------------------------------------------------------------------
(* The summary strings.  A formatted string is the tuple of its fixed text  *)
(* and the numbers printed in it; a percentage is the fraction <<n, d>>.    *)

\* the share of the patterns, not of the devices, that have a mapping file
calculate_relay_mapping_percentage_by_count(patterns) ==
    IF patterns = <<>> THEN <<0, 1>>
    ELSE <<Len(SelectSeq(patterns, LAMBDA p : p.mapping_file # <<>>)) * 100,
           Len(patterns)>>

\* _calculate_relay_mapping_percentage
calculate_relay_mapping_percentage(patterns) ==
    LET total_relays ==
            SumSeq([i \in 1..Len(patterns) |-> patterns[i].eql_population])
        mapped == SelectSeq(patterns, LAMBDA p : p.mapping_file # <<>>)
        relays_with_mapping ==
            SumSeq([i \in 1..Len(mapped) |-> mapped[i].eql_population])
    IN  IF patterns = <<>> \/ total_relays = 0 THEN <<0, 1>>
        ELSE <<relays_with_mapping * 100, total_relays>>

get_ips_summary_stats(c) ==
    IF c.relay_patterns_seq = <<>> /\ c.relay_patterns_regional = <<>>
    THEN <<"No data loaded">>
    ELSE <<"% of SEQ IPS devices have mapping files / % of Regional",
           calculate_relay_mapping_percentage(c.relay_patterns_seq),
           calculate_relay_mapping_percentage(c.relay_patterns_regional)>>

get_mapping_summary_stats_unguarded(c) ==
    <<"of mapping files validated",
      Len(SelectSeq(c.mapping_files, LAMBDA mf : mf.validated # <<>>)),
      Len(c.mapping_files)>>

get_mapping_summary_stats(c) ==
    IF Len(c.mapping_files) = 0 THEN <<"No mapping files found">>
    ELSE <<"of mapping files validated",
           Len(SelectSeq(c.mapping_files, LAMBDA mf : mf.validated # <<>>)),
           Len(c.mapping_files)>>

RECURSIVE Gcd(_, _)
Gcd(a, b) == IF b = 0 THEN a ELSE Gcd(b, a % b)

\* a float is kept as the fraction <<n, d>> in lowest terms
Float(n, d) ==
    IF n = 0 THEN <<0, 1>> ELSE <<n \div Gcd(n, d), d \div Gcd(n, d)>>

\* the sum of the floats (success_percentage / 100) * num_transfers
RECURSIVE WeightedSum(_)
WeightedSum(logs) ==
    IF logs = <<>> THEN <<0, 1>>
    ELSE LET rest == WeightedSum(Tail(logs))
             n == Head(logs).success_percentage[1] * Head(logs).num_transfers
             d == Head(logs).success_percentage[2] * 100
         IN  Float(n * rest[2] + rest[1] * d, d * rest[2])

\* the division by total_transfers is not guarded: ZeroDivisionError, which
\* the except clause of the function turns into "Under Construction"
get_script_maintenance_summary_stats_unguarded(c) ==
    LET logs == c.script_run_logs
        total_transfers ==
            SumSeq([i \in 1..Len(logs) |-> logs[i].num_transfers])
        weighted == WeightedSum(logs)
    IN  IF Len(logs) = 0 THEN <<"No script runs logged">>
        ELSE IF total_transfers = 0 THEN <<"Under Construction">>
        ELSE <<"script run(s) logged / % Successful Transfers", Len(logs),
               Float(weighted[1] * 100, weighted[2] * total_transfers)>>

get_script_maintenance_summary_stats(c) ==
    LET logs == c.script_run_logs
        total_transfers ==
            SumSeq([i \in 1..Len(logs) |-> logs[i].num_transfers])
        weighted == WeightedSum(logs)
    IN  IF Len(logs) = 0 THEN <<"No script runs logged">>
        ELSE <<"script run(s) logged / % Successful Transfers", Len(logs),
               IF total_transfers > 0
               THEN Float(weighted[1] * 100, weighted[2] * total_transfers)
               ELSE <<0, 1>>>>

get_relay_models_summary_stats(c) ==
    IF c.relay_models = <<>> THEN <<"No relay models loaded">>
    ELSE <<"EQL PowerFactory relay models validated",
           Len(SelectSeq(c.relay_models, LAMBDA rm :
                   rm.model_validated # <<>> /\ rm.used_in_eql # <<>>))>>

get_fuse_models_summary_stats(c) ==
    IF c.fuse_models = <<>> THEN <<"No fuse models loaded">>
    ELSE <<"EQL Standard PowerFactory fuse models",
           Len(SelectSeq(c.fuse_models, LAMBDA fm : fm.eql_standard # <<>>))>>

\* the five summary functions of DataManager, called one after the other
Summaries(c) ==
    [ips |-> get_ips_summary_stats(c),
     mapping |-> get_mapping_summary_stats(c),
     script |-> get_script_maintenance_summary_stats(c),
     relay |-> get_relay_models_summary_stats(c),
     fuse |-> get_fuse_models_summary_stats(c)]

----------------------------------------------------------------------------
(* Source contents *)

sA == <<"a">>
sB == <<"b">>
sUpperB == <<"B">>
sX == <<"x">>
sPaddedA == <<" ", "a", " ">>
sBlank == <<" ">>
ts1 == <<"iso", "t1">>
ts1Z == <<"isoZ", "t1">>

ValidLine == LogLine("object", "marker", ts1Z, "list",
                     <<Item(sA, sA, Absent), Item(sA, sB, sX)>>)
CleanLine == LogLine("object", "marker", ts1, "list", <<Item(sB, sA, Absent)>>)
BlankResultLine == LogLine("object", "marker", Absent, "list",
                           <<Item(Absent, Absent, sBlank),
                             Item(sA, sB, PyNone)>>)
OtherLine == LogLine("object", "other", ts1, "nobrackets", <<>>)
NoMessageLine == LogLine("object", "absent", ts1, "nobrackets", <<>>)
InvalidJsonLine == LogLine("invalid", "absent", Absent, "nobrackets", <<>>)
BlankLine == LogLine("blank", "absent", Absent, "nobrackets", <<>>)
NonObjectLine == LogLine("nonobject", "absent", Absent, "nobrackets", <<>>)
NonStringMessageLine == LogLine("object", "nonstring", ts1, "nobrackets", <<>>)
NoBracketsLine == LogLine("object", "marker", ts1, "nobrackets", <<>>)
UnparseableLine == LogLine("object", "marker", ts1, "unparseable", <<>>)
NotListLine == LogLine("object", "marker", ts1, "notlist", <<>>)
EmptyListLine == LogLine("object", "marker", ts1, "list", <<>>)
NonRecordLine == LogLine("object", "marker", ts1, "list",
                         <<Item(sA, sA, Absent), NonRecord>>)
NullTimestampLine == LogLine("object", "marker", PyNone, "list",
                             <<Item(sA, sA, Absent)>>)
NumberTimestampLine == LogLine("object", "marker", PyNumber, "list",
                               <<Item(sA, sA, sX)>>)
MalformedTimestampLine == LogLine("object", "marker", sX, "list",
                                  <<Item(sB, sA, sX)>>)
PaddedResultLine == LogLine("object", "marker", ts1, "list",
                            <<Item(sA, sB, sPaddedA), Item(sA, sA, PyNumber)>>)

\* every source present
FullDisk ==
    [pf_validation |-> File(<<sA, NaN, sBlank>>),
     mapping_validation |-> File(<<sX>>),
     fuse_datasheet |-> File(<<sPaddedA>>),
     type_mapping |-> File(<<<<sA, sA, sX>>, <<sB, sA, sA>>,
                             <<sB, sB, NaN>>, <<NaN, sB, sX>>>>),
     mapping_dir |-> File({sX \o DotCsv, sUpperB \o DotCsv, sA \o DotCsv,
                           <<"a", ".", "t", "x", "t">>}),
     seq |-> File(<<<<sB, sX>>, <<sA, sA>>, <<sA, sB>>>>),
     regional |-> File(<<<<sX, sA>>, <<sB, NaN>>>>),
     log |-> File(<<ValidLine, CleanLine>>),
     log_noext |-> NoFile,
     relay_models |-> File(<<<<sX, sPaddedA, Yes>>, <<sX, sB, NaN>>>>),
     fuse_models |-> File(<<<<sA, sX, Yes>>, <<sB, sX, NaN>>>>)]

\* no source present
EmptyDisk ==
    [s \in Sources \cup {"log_noext"} |-> Missing(s)]

\* what an external writer may put in place of a source
Rewritten(s) ==
    CASE s = "seq" -> File(<<<<sA, sA>>, <<NaN, sB>>>>)
      [] s = "regional" -> File(<<<<sA, sX>>>>)
      [] s = "log" -> File(<<BlankResultLine>>)
      [] s = "type_mapping" -> File(<<<<sB, sB, sUpperB>>>>)
      [] s = "mapping_dir" -> File({sA \o DotCsv})
      [] OTHER -> FullDisk[s]

----------------------------------------------------------------------------
(* The state after the module is imported: no DataManager object yet *)

\* nothing read yet by the relay-patterns page
NoRead == [flags |-> <<FALSE, FALSE>>, patterns |-> <<>>, total |-> 0]

NoWindow == [script_run_logs |-> <<>>, failed_transfers |-> <<>>,
             log_stats |-> [total_runs |-> 0, total_failures |-> 0],
             status |-> <<>>]

NoSummaries == [ips |-> <<>>, mapping |-> <<>>, script |-> <<>>,
                relay |-> <<>>, fuse |-> <<>>]

InitProgram ==
    /\ instance = 0
    /\ initialized = FALSE
    /\ cache = DataCache
    /\ pc = "idle"
    /\ op = "none"
    /\ step = 0
    /\ done = {}
    /\ objects = 0
    /\ loadCalls = 0
    /\ getCalls = 0
    /\ refreshCalls = 0
    /\ returned = 0
    /\ lastOp = "none"
    /\ prevCache = DataCache
    /\ lastLoad = "none"
    /\ repeat = FALSE
    /\ dirty = FALSE
    /\ changes = 0
    /\ shown = NoSummaries
    /\ window = NoWindow
    /\ got = NoRead

Init ==
    /\ files \in {FullDisk, EmptyDisk}
    /\ InitProgram

----------------------------------------------------------------------------
(* The operations *)

\* DataManager.__new__: <<the object returned, objects allocated>>
New(inst, objs) == IF inst = 0 THEN <<objs + 1, objs + 1>> ELSE <<inst, objs>>

NeedsLoadAlways(init) == TRUE

\* DataManager.__init__: load unless _initialized
NeedsLoad(init) == ~init

FreshCacheKeep(c) == c

\* self.cache as refresh_data and __init__ set it before _load_all_data
FreshCache(c) == DataCache

StartLoad(caller) ==
    /\ cache' = FreshCache(cache)
    /\ prevCache' = cache
    /\ repeat' = (caller = "refresh" /\ lastLoad = "refresh" /\ ~dirty)
    /\ pc' = "loading"
    /\ op' = caller
    /\ step' = 1
    /\ done' = {}
    /\ loadCalls' = loadCalls + 1

\* get_data_manager(): DataManager() runs __new__ and then __init__
GetDataManager ==
    /\ pc = "idle"
    /\ getCalls + refreshCalls < MaxCalls
    /\ getCalls' = getCalls + 1
    /\ instance' = New(instance, objects)[1]
    /\ objects' = New(instance, objects)[2]
    /\ IF NeedsLoad(initialized)
       THEN /\ StartLoad("init")
            /\ UNCHANGED <<initialized, returned, lastOp>>
       ELSE /\ returned' = instance'
            /\ lastOp' = "get"
            /\ prevCache' = cache
            /\ UNCHANGED <<initialized, cache, pc, op, step, done, loadCalls,
                           repeat>>
    /\ UNCHANGED <<files, refreshCalls, lastLoad, dirty, changes, shown,
                   window, got>>

\* refresh_data(), called on the object get_data_manager() returned
RefreshData ==
    /\ pc = "idle"
    /\ returned # 0
    /\ getCalls + refreshCalls < MaxCalls
    /\ refreshCalls' = refreshCalls + 1
    /\ initialized' = FALSE
    /\ StartLoad("refresh")
    /\ UNCHANGED <<files, instance, objects, getCalls, returned, lastOp,
                   lastLoad, dirty, changes, shown, window, got>>

\* the directory listings a step may get: only _load_mapping_files lists
Listings(name, f) ==
    IF name = "mapping_files" THEN GlobCsv(f.mapping_dir.rows) ELSE {<<>>}

\* one step of _load_all_data
LoadStep ==
    /\ pc = "loading"
    /\ step <= Len(LoadOrder)
    /\ \E csv_files \in Listings(LoadOrder[step], files) :
           cache' = RunStep(LoadOrder[step], cache, files, csv_files)
    /\ done' = done \cup {LoadOrder[step]}
    /\ step' = step + 1
    /\ pc' = IF Escapes(LoadOrder[step], files) THEN "raised" ELSE pc
    /\ UNCHANGED <<files, instance, initialized, op, objects, loadCalls,
                   getCalls, refreshCalls, returned, lastOp, prevCache,
                   lastLoad, repeat, dirty, changes, shown, window, got>>

\* _on_delete_log_contents after refresh_data() has returned
WindowAfterClear(c) ==
    [script_run_logs |-> c.script_run_logs,
     failed_transfers |-> c.failed_transfers,
     log_stats |-> c.script_log_stats,
     status |-> <<"No script runs found in log file">>]

\* _load_all_data returns: the handler that called it sets _initialized and
\* returns to its caller
LoadReturn ==
    /\ pc = "loading"
    /\ step > Len(LoadOrder)
    /\ initialized' = TRUE
    /\ pc' = "idle"
    /\ step' = 0
    /\ op' = "none"
    /\ lastOp' = op
    /\ lastLoad' = op
    /\ dirty' = FALSE
    /\ returned' = IF op = "init" THEN instance ELSE returned
    /\ window' = IF op = "clear_log" THEN WindowAfterClear(cache) ELSE window
    /\ UNCHANGED <<files, instance, cache, done, objects, loadCalls, getCalls,
                   refreshCalls, prevCache, repeat, changes, shown, got>>

\* the list is the cached SEQ list itself, extended and sorted in place
get_relay_patterns_in_place(c, include_seq, include_regional) ==
    LET patterns ==
            (IF include_seq THEN c.relay_patterns_seq ELSE <<>>)
            \o (IF include_regional THEN c.relay_patterns_regional ELSE <<>>)
    IN  [patterns |-> SortByPopulation(patterns),
         cache |-> IF include_seq
                   THEN [c EXCEPT !.relay_patterns_seq =
                                      SortByPopulation(patterns)]
                   ELSE c]

\* get_relay_patterns: the list returned, and the snapshot after the call
get_relay_patterns(c, include_seq, include_regional) ==
    LET patterns ==
            (IF include_seq THEN c.relay_patterns_seq ELSE <<>>)
            \o (IF include_regional THEN c.relay_patterns_regional ELSE <<>>)
    IN  [patterns |-> SortByPopulation(patterns), cache |-> c]

get_ips_total_records(c, include_seq, include_regional) ==
    (IF include_seq THEN c.ips_total_records_seq ELSE 0)
    + (IF include_regional THEN c.ips_total_records_regional ELSE 0)

\* the relay-patterns page reads its rows and its total for the sources
\* ticked
ReadRelayPatterns ==
    /\ pc = "idle"
    /\ returned # 0
    /\ \E include_seq \in BOOLEAN, include_regional \in BOOLEAN :
           LET read == get_relay_patterns(cache, include_seq,
                                          include_regional)
           IN  /\ got' = [flags |-> <<include_seq, include_regional>>,
                          patterns |-> read.patterns,
                          total |-> get_ips_total_records(read.cache,
                                        include_seq, include_regional)]
               /\ cache' = read.cache
    /\ got' # got
    /\ lastOp' = "patterns"
    /\ UNCHANGED <<files, instance, initialized, pc, op, step, done,
                   objects, loadCalls, getCalls, refreshCalls, returned,
                   prevCache, lastLoad, repeat, dirty, changes, shown,
                   window>>

\* the summary functions, called by the landing page
ReadSummaries ==
    /\ pc = "idle"
    /\ returned # 0
    /\ lastOp # "summaries"
    /\ shown' = Summaries(cache)
    /\ lastOp' = "summaries"
    /\ UNCHANGED <<files, instance, initialized, cache, pc, op, step, done,
                   objects, loadCalls, getCalls, refreshCalls, returned,
                   prevCache, lastLoad, repeat, dirty, changes, window, got>>

\* the status text of _create_header: its fixed text and its numbers
create_header_status(script_run_logs, log_stats) ==
    LET total_runs == log_stats.total_runs
        total_failures == log_stats.total_failures
        total_transfers ==
            SumSeq([i \in 1..Len(script_run_logs) |->
                       script_run_logs[i].num_transfers])
    IN  IF total_runs = 0 THEN <<"No script runs found in log file">>
        ELSE IF total_transfers > 0
        THEN <<"script run(s) logged | failed transfer(s) | % overall success",
               total_runs, total_failures,
               <<(total_transfers - total_failures) * 100, total_transfers>>>>
        ELSE <<"script run(s) logged | No transfers recorded", total_runs>>

\* ScriptMaintenanceWindow.__init__: get_data_manager(), the three getters
\* and the header
OpenScriptMaintenance ==
    /\ pc = "idle"
    /\ returned # 0
    /\ ~NeedsLoad(initialized)
    /\ lastOp # "window"
    /\ getCalls + refreshCalls < MaxCalls
    /\ getCalls' = getCalls + 1
    /\ window' = [script_run_logs |-> cache.script_run_logs,
                  failed_transfers |-> cache.failed_transfers,
                  log_stats |-> cache.script_log_stats,
                  status |-> create_header_status(cache.script_run_logs,
                                                  cache.script_log_stats)]
    /\ lastOp' = "window"
    /\ UNCHANGED <<files, instance, initialized, cache, pc, op, step, done,
                   objects, loadCalls, refreshCalls, returned, prevCache,
                   lastLoad, repeat, dirty, changes, shown, got>>

\* the file _on_delete_log_contents opens in 'w' mode
ClearedFile == "log_noext"

\* ScriptMaintenanceWindow._on_delete_log_contents, the dialog confirmed;
\* open() may fail, and the handler then only shows the error
ClearLog ==
    /\ pc = "idle"
    /\ returned # 0
    /\ getCalls + refreshCalls < MaxCalls
    /\ \E opened \in BOOLEAN :
         IF opened
         THEN /\ files' = [files EXCEPT ![ClearedFile] = File(<<>>)]
              /\ refreshCalls' = refreshCalls + 1
              /\ initialized' = FALSE
              /\ StartLoad("clear_log")
              /\ UNCHANGED lastOp
         ELSE /\ lastOp' = "clear_log_failed"
              /\ UNCHANGED <<files, refreshCalls, initialized, cache, pc, op,
                             step, done, loadCalls, prevCache, repeat>>
    /\ UNCHANGED <<instance, objects, getCalls, returned, lastLoad, dirty,
                   changes, shown, window, got>>

\* another program deletes or rewrites a source while the caller has control
DeleteSource ==
    /\ pc = "idle"
    /\ changes < MaxChanges
    /\ \E s \in Sources :
         /\ files[s].exists
         /\ files' = [files EXCEPT ![s] = Missing(s)]
    /\ dirty' = TRUE
    /\ changes' = changes + 1
    /\ UNCHANGED <<instance, initialized, cache, pc, op, step, done, objects,
                   loadCalls, getCalls, refreshCalls, returned, lastOp,
                   prevCache, lastLoad, repeat, shown, window, got>>

WriteSource ==
    /\ pc = "idle"
    /\ changes < MaxChanges
    /\ \E s \in Sources :
         /\ files[s] # Rewritten(s)
         /\ files' = [files EXCEPT ![s] = Rewritten(s)]
    /\ dirty' = TRUE
    /\ changes' = changes + 1
    /\ UNCHANGED <<instance, initialized, cache, pc, op, step, done, objects,
                   loadCalls, getCalls, refreshCalls, returned, lastOp,
                   prevCache, lastLoad, repeat, shown, window, got>>

\* the sequences over S of length at most n
SeqsUpTo(S, n) == UNION {[1..k -> S] : k \in 0..n}

\* the disk with exactly the sources in present
DiskWith(present) ==
    [s \in Sources \cup {"log_noext"} |->
        IF s \in present THEN FullDisk[s] ELSE Missing(s)]

LineKinds ==
    {ValidLine, CleanLine, BlankResultLine, OtherLine, NoMessageLine,
     InvalidJsonLine, BlankLine, NonObjectLine, NonStringMessageLine,
     NoBracketsLine, UnparseableLine, NotListLine, EmptyListLine,
     NonRecordLine, NullTimestampLine, NumberTimestampLine,
     MalformedTimestampLine, PaddedResultLine}

TypeMappingRowKinds ==
    {<<sA, sA, sX>>, <<sPaddedA, sB, sA>>, <<sB, sA, sX>>, <<NaN, sB, sX>>,
     <<sA, NaN, sB>>, <<sB, sB, NaN>>, <<sA, sA, sBlank>>,
     <<sB, sA, <<"x", " ">>>>}

MappingDirKinds == {FullDisk.mapping_dir, File({sA \o DotCsv})}

\* any subset of the sources missing
InitMissing ==
    /\ files \in {DiskWith(present) : present \in SUBSET Sources}
    /\ InitProgram

\* any log file of at most MaxLines lines
InitLog ==
    /\ \E lines \in SeqsUpTo(LineKinds, MaxLines) :
           files = [FullDisk EXCEPT !.log = File(lines)]
    /\ InitProgram

\* any type-mapping table of at most MaxRows rows
InitMap ==
    /\ \E rows \in SeqsUpTo(TypeMappingRowKinds, MaxRows) :
       \E dir \in MappingDirKinds :
           files = [FullDisk EXCEPT !.type_mapping = File(rows),
                                    !.mapping_dir = dir]
    /\ InitProgram

RelayRowKinds ==
    {<<pattern, asset>> : pattern \in {sA, sX, sPaddedA, NaN},
                          asset \in {sA, sPaddedA, NaN}}

\* any SEQ relay-pattern table of at most MaxRelayRows rows, the Regional
\* table present or missing
InitRelay ==
    /\ \E rows \in SeqsUpTo(RelayRowKinds, MaxRelayRows) :
       \E regional \in {FullDisk.regional, NoFile} :
           files = [FullDisk EXCEPT !.seq = File(rows),
                                    !.regional = regional]
    /\ InitProgram

\* ScriptRunLog records as the summary function accepts them: any count of
\* transfers, any percentage
RunKinds ==
    {ScriptRunLog(<<"display", "t1">>, sA, 10, <<50, 1>>),
     ScriptRunLog(<<"display", "t1">>, sA, 90, <<100, 1>>),
     ScriptRunLog(<<"display", "t1">>, sB, 0, <<0, 1>>),
     ScriptRunLog(<<"display", "t1">>, sB, 2, <<100, 2>>),
     ScriptRunLog(<<"display", "t1">>, sB, 3, <<200, 3>>),
     ScriptRunLog(<<"display", "t1">>, sX, 1, <<0, 1>>)}

\* the state after get_data_manager() has returned, the snapshot holding
\* any list of at most MaxRuns ScriptRunLog records
InitRuns ==
    /\ files = EmptyDisk
    /\ \E runs \in SeqsUpTo(RunKinds, MaxRuns) :
           cache = [DataCache EXCEPT
                       !.script_run_logs = runs,
                       !.script_log_stats.total_runs = Len(runs)]
    /\ instance = 1
    /\ initialized = TRUE
    /\ pc = "idle"
    /\ op = "none"
    /\ step = 0
    /\ done = {LoadOrder[i] : i \in 1..Len(LoadOrder)}
    /\ objects = 1
    /\ loadCalls = 1
    /\ getCalls = 1
    /\ refreshCalls = 0
    /\ returned = 1
    /\ lastOp = "init"
    /\ prevCache = DataCache
    /\ lastLoad = "init"
    /\ repeat = FALSE
    /\ dirty = FALSE
    /\ changes = 0
    /\ shown = NoSummaries
    /\ window = NoWindow
    /\ got = NoRead

ValidationKinds ==
    {File(<<sA, NaN, sBlank>>), File(<<sPaddedA, sB>>), File(<<sX>>),
     File(<<sUpperB, sX>>), File(<<>>), NoFile}

\* any contents of the three validation lists
InitValid ==
    /\ \E pf \in ValidationKinds, mapping \in ValidationKinds,
          fuse \in ValidationKinds :
           files = [FullDisk EXCEPT !.pf_validation = pf,
                                    !.mapping_validation = mapping,
                                    !.fuse_datasheet = fuse]
    /\ InitProgram

Next ==
    \/ GetDataManager
    \/ RefreshData
    \/ LoadStep
    \/ LoadReturn
    \/ ReadSummaries
    \/ ClearLog
    \/ DeleteSource
    \/ WriteSource
    \/ OpenScriptMaintenance

Spec == Init /\ [][Next]_vars

\* loads and reloads of an unchanging disk
NextLoad ==
    \/ GetDataManager
    \/ RefreshData
    \/ LoadStep
    \/ LoadReturn

\* the first load
NextFirstLoad ==
    \/ GetDataManager
    \/ LoadStep
    \/ LoadReturn

SpecMissing == InitMissing /\ [][NextLoad]_vars

\* the first load, then the landing page and the script-maintenance window
NextShow ==
    \/ GetDataManager
    \/ LoadStep
    \/ LoadReturn
    \/ ReadSummaries
    \/ OpenScriptMaintenance

SpecLog == InitLog /\ [][NextShow]_vars

SpecMap == InitMap /\ [][NextFirstLoad]_vars

SpecValid == InitValid /\ [][NextFirstLoad]_vars

\* the first load, then the landing page
NextLanding ==
    \/ GetDataManager
    \/ LoadStep
    \/ LoadReturn
    \/ ReadSummaries

SpecRelay == InitRelay /\ [][NextLanding]_vars

PageRowKinds == {<<sA, sA>>, <<sX, sA>>, <<NaN, sA>>}

PageRegionalTables ==
    {NoFile, File(<<>>), File(<< <<sA, sA>> >>), File(<< <<NaN, sA>> >>),
     File(<< <<sX, sA>>, <<sX, sA>>, <<sA, sA>> >>)}

\* any SEQ relay-pattern table of at most MaxRelayRows rows, the Regional
\* table one of PageRegionalTables
InitPages ==
    /\ \E rows \in SeqsUpTo(PageRowKinds, MaxRelayRows) :
       \E regional \in PageRegionalTables :
           files = [FullDisk EXCEPT !.seq = File(rows),
                                    !.regional = regional]
    /\ InitProgram

\* the first load, then the landing page, the relay-patterns page and the
\* script-maintenance window
NextPages ==
    \/ GetDataManager
    \/ LoadStep
    \/ LoadReturn
    \/ ReadSummaries
    \/ ReadRelayPatterns
    \/ OpenScriptMaintenance

SpecPages == InitPages /\ [][NextPages]_vars

\* the landing page and the script-maintenance window read the snapshot
NextRead ==
    \/ ReadSummaries
    \/ OpenScriptMaintenance

SpecRuns == InitRuns /\ [][NextRead]_vars

----------------------------------------------------------------------------
(* Properties of the cache lifecycle *)

AllSteps == {"validation_logs", "type_mapping", "mapping_files",
             "mapping_lookup", "relay_patterns", "script_logs",
             "relay_models", "fuse_models"}

\* C1: _load_all_data has run once for the first get_data_manager() and once
\* per refresh_data(); only one DataManager object is ever allocated and
\* returned, and a get_data_manager() after the first leaves the snapshot as
\* it was and starts no load.
C1_LoadOncePerCall ==
    /\ loadCalls = (IF getCalls > 0 THEN 1 ELSE 0) + refreshCalls
    /\ objects <= 1
    /\ returned \in {0, instance}
    /\ (pc = "idle" /\ lastOp = "get") =>
          (cache = prevCache /\ returned = instance)

C1_Witness ==
    /\ pc = "idle"
    /\ lastOp = "get"
    /\ getCalls >= 2
    /\ refreshCalls >= 1
    /\ cache.relay_models # <<>>

\* C2: whenever control is with the caller, the snapshot is that of a load
\* cycle in which all eight steps have run, and the snapshot a read has
\* observed is that snapshot.
C2_CallerSeesCompleteLoad ==
    (pc = "idle" /\ returned # 0) =>
        /\ initialized
        /\ done = AllSteps
        /\ lastOp = "summaries" => shown = Summaries(cache)

C2_Witness ==
    /\ pc = "idle"
    /\ lastOp = "summaries"
    /\ lastLoad = "refresh"
    /\ prevCache # cache

\* C3: after refresh_data() the snapshot is the load of the sources as they
\* are, started from an empty DataCache: a relay-pattern file that has
\* disappeared leaves an empty pattern list and a record count of 0.
C3_NothingSurvivesRefresh ==
    (pc = "idle" /\ lastLoad \in {"refresh", "clear_log"} /\ ~dirty) =>
        /\ \E csv_files \in GlobCsv(files.mapping_dir.rows) :
              cache = LoadFrom(DataCache, files, csv_files, 1)
        /\ ~files.seq.exists =>
              (cache.relay_patterns_seq = <<>>
               /\ cache.ips_total_records_seq = 0)
        /\ ~files.regional.exists =>
              (cache.relay_patterns_regional = <<>>
               /\ cache.ips_total_records_regional = 0)

C3_Witness ==
    /\ pc = "idle"
    /\ lastOp = "refresh"
    /\ ~dirty
    /\ ~files.seq.exists
    /\ prevCache.ips_total_records_seq > 0
    /\ prevCache.relay_patterns_seq # <<>>

\* C4: a refresh_data() that follows another refresh_data() with no source
\* changed in between yields a snapshot equal to the previous one in every
\* field.
C4_RefreshIdempotent ==
    (pc = "idle" /\ lastOp = "refresh" /\ repeat) => cache = prevCache

C4_Witness ==
    /\ pc = "idle"
    /\ lastOp = "refresh"
    /\ repeat
    /\ Len(cache.mapping_files) >= 2
    /\ cache.relay_patterns_seq # <<>>

\* C5: a load step runs only when every field of the snapshot it reads has
\* been assigned by a step of the same load cycle.
C5_DependencyOrder ==
    (pc = "loading" /\ step <= Len(LoadOrder)) =>
        \A fld \in ReadsOf(LoadOrder[step]) :
            \E w \in done : fld \in WritesOf(w)

C5_Witness ==
    /\ pc = "loading"
    /\ op = "refresh"
    /\ step <= Len(LoadOrder)
    /\ LoadOrder[step] = "relay_patterns"
    /\ "mapping_lookup" \in done
    /\ cache.mapping_by_ips_pattern # EmptyDict

----------------------------------------------------------------------------
(* Properties of the summary functions *)

\* C7 as amended: on an empty input list each summary function returns its
\* own fixed string.
C7_OwnFallbackStrings ==
    (pc = "idle" /\ lastOp = "summaries") =>
        /\ (cache.relay_patterns_seq = <<>>
            /\ cache.relay_patterns_regional = <<>>) =>
               shown.ips = <<"No data loaded">>
        /\ cache.mapping_files = <<>> =>
               shown.mapping = <<"No mapping files found">>
        /\ cache.script_run_logs = <<>> =>
               shown.script = <<"No script runs logged">>
        /\ cache.relay_models = <<>> =>
               shown.relay = <<"No relay models loaded">>
        /\ cache.fuse_models = <<>> =>
               shown.fuse = <<"No fuse models loaded">>

C7_Witness ==
    /\ pc = "idle"
    /\ lastOp = "summaries"
    /\ cache.relay_patterns_seq = <<>>
    /\ cache.relay_patterns_regional = <<>>
    /\ cache.mapping_files = <<>>
    /\ cache.script_run_logs = <<>>
    /\ cache.relay_models = <<>>
    /\ cache.fuse_models = <<>>

SpecFallbacks == {<<"No data loaded">>, <<"Under Construction">>}

\* C7 as stated: on an empty input list each summary function returns
\* "No data loaded" or "Under Construction".
C7_Original ==
    (pc = "idle" /\ lastOp = "summaries") =>
        /\ (cache.relay_patterns_seq = <<>>
            /\ cache.relay_patterns_regional = <<>>) =>
               shown.ips \in SpecFallbacks
        /\ cache.mapping_files = <<>> => shown.mapping \in SpecFallbacks
        /\ cache.script_run_logs = <<>> => shown.script \in SpecFallbacks
        /\ cache.relay_models = <<>> => shown.relay \in SpecFallbacks
        /\ cache.fuse_models = <<>> => shown.fuse \in SpecFallbacks

----------------------------------------------------------------------------
(* Properties of the clear-log handler *)

\* C9: the clear-log handler truncates the file the log reader loads, so
\* that after a confirmed clear-log the snapshot has no script runs and no
\* failed transfers, its statistics are 0 and 0, and the window shows that.
C9_ClearLogEmptiesSnapshot ==
    (pc = "idle" /\ lastOp = "clear_log") =>
        /\ cache.script_run_logs = <<>>
        /\ cache.failed_transfers = <<>>
        /\ cache.script_log_stats = [total_runs |-> 0, total_failures |-> 0]
        /\ window.script_run_logs = <<>>
        /\ window.log_stats.total_runs = 0

----------------------------------------------------------------------------
(* Properties of the readers *)

\* C6: whatever sources are missing, no load raises, and every list, set
\* and index whose source is missing is empty; with every source missing the
\* snapshot is the empty DataCache.
C6_MissingSourcesLoadEmpty ==
    /\ pc # "raised"
    /\ (pc = "idle" /\ returned # 0) =>
        /\ ~files.pf_validation.exists => cache.validated_pf_devices = {}
        /\ ~files.mapping_validation.exists =>
              cache.validated_mapping_files = {}
        /\ ~files.fuse_datasheet.exists => cache.fuse_datasheets = {}
        /\ ~files.type_mapping.exists =>
              /\ cache.type_mapping_entries = <<>>
              /\ DOMAIN cache.mapping_by_ips_pattern = {}
              /\ DOMAIN cache.mapping_by_pf_model = {}
        /\ ~files.mapping_dir.exists => cache.mapping_files = <<>>
        /\ ~files.seq.exists =>
              /\ cache.relay_patterns_seq = <<>>
              /\ cache.ips_total_records_seq = 0
        /\ ~files.regional.exists =>
              /\ cache.relay_patterns_regional = <<>>
              /\ cache.ips_total_records_regional = 0
        /\ ~files.log.exists =>
              /\ cache.script_run_logs = <<>>
              /\ cache.failed_transfers = <<>>
        /\ ~files.relay_models.exists => cache.relay_models = <<>>
        /\ ~files.fuse_models.exists => cache.fuse_models = <<>>
        /\ (\A s \in Sources : ~files[s].exists) => cache = DataCache

C6_Witness ==
    /\ pc = "idle"
    /\ lastOp = "refresh"
    /\ ~files.type_mapping.exists
    /\ ~files.seq.exists
    /\ ~files.log.exists
    /\ files.regional.exists
    /\ files.mapping_dir.exists
    /\ files.relay_models.exists
    /\ cache.relay_patterns_regional # <<>>

\* a line that leads to a ScriptRunLog: a JSON object whose message starts
\* with the marker and embeds a non-empty list of records
IsValidMarkerLine(line) ==
    /\ line.json = "object"
    /\ line.msg = "marker"
    /\ line.payload = "list"
    /\ line.items # <<>>
    /\ \A i \in 1..Len(line.items) : line.items[i].isdict

\* the timestamp is a str or is absent
HasPlainTimestamp(line) == line.ts \notin {PyNone, PyNumber}

\* C8: a line that cannot be decoded is skipped on its own: the snapshot
\* has one ScriptRunLog for every valid marker line of the file, whatever
\* the other lines are.
C8_BadLineSkippedAlone ==
    (/\ pc = "idle"
     /\ returned # 0
     /\ files.log.exists
     /\ \A i \in 1..Len(files.log.rows) : HasPlainTimestamp(files.log.rows[i]))
    => Len(cache.script_run_logs) =
           Len(SelectSeq(files.log.rows, IsValidMarkerLine))

----------------------------------------------------------------------------
(* Properties of the join *)

\* the stem of the last entry whose ips is x
RECURSIVE LastStemOf(_, _)
LastStemOf(entries, x) ==
    IF entries[Len(entries)].ips = x THEN entries[Len(entries)].mapping_file
    ELSE LastStemOf(SubSeq(entries, 1, Len(entries) - 1), x)

\* C10 as amended: for every retained row (X, Y, Z) with non-empty X, X is a
\* key of the ips index, mapped to the stem of the last retained row with
\* that X plus '.csv', and every MappingFile named Z.csv lists X; a retained
\* row with an empty X adds no key.
C10_RoundTripLastWins ==
    (pc = "idle" /\ returned # 0) =>
        \A i \in 1..Len(cache.type_mapping_entries) :
            LET e == cache.type_mapping_entries[i]
                idx == cache.mapping_by_ips_pattern
            IN  /\ e.mapping_file # <<>>
                /\ e.ips = <<>> => e.ips \notin DOMAIN idx
                /\ e.ips # <<>> =>
                    /\ e.ips \in DOMAIN idx
                    /\ idx[e.ips] =
                         LastStemOf(cache.type_mapping_entries, e.ips)
                             \o DotCsv
                    /\ \A k \in 1..Len(cache.mapping_files) :
                         cache.mapping_files[k].filename =
                             e.mapping_file \o DotCsv
                         => Contains(cache.mapping_files[k].ips_patterns,
                                     e.ips)

C10_Witness ==
    /\ pc = "idle"
    /\ returned # 0
    /\ files.type_mapping.rows = <<<<sPaddedA, sB, sA>>, <<sA, sA, sX>>>>
    /\ cache.mapping_by_ips_pattern[sA] = sX \o DotCsv
    /\ \E k \in 1..Len(cache.mapping_files) :
          /\ cache.mapping_files[k].filename = sA \o DotCsv
          /\ Contains(cache.mapping_files[k].ips_patterns, sA)

\* C10 as stated: for every retained row (X, Y, Z), X is a key of the ips
\* index with value Z + '.csv', and the MappingFile named Z + '.csv' has X
\* in its ips_patterns.
C10_Original ==
    (pc = "idle" /\ returned # 0) =>
        \A i \in 1..Len(cache.type_mapping_entries) :
            LET e == cache.type_mapping_entries[i]
                idx == cache.mapping_by_ips_pattern
            IN  /\ e.ips \in DOMAIN idx
                /\ idx[e.ips] = e.mapping_file \o DotCsv
                /\ \E k \in 1..Len(cache.mapping_files) :
                     /\ cache.mapping_files[k].filename =
                            e.mapping_file \o DotCsv
                     /\ Contains(cache.mapping_files[k].ips_patterns, e.ips)

----------------------------------------------------------------------------
(* Properties of the type-mapping rows *)

\* the MAPPING_FILE cell of the row is present and not blank
HasMappingFile(row) == row[3] # NaN /\ Strip(row[3]) # <<>>

\* the disk with the type-mapping table reduced to the rows that have a
\* MAPPING_FILE
WithoutBlankStems(f) ==
    [f EXCEPT !.type_mapping =
        File(SelectSeq(f.type_mapping.rows, HasMappingFile))]

\* C11: a type-mapping row whose MAPPING_FILE cell is missing, empty or
\* blank is dropped: type_mapping_entries has one entry per other row, each
\* with a non-empty stem, no index value and no RelayPattern.mapping_file
\* is the bare '.csv', and the whole snapshot (indexes, MappingFiles,
\* RelayPatterns, RelayModels) is the one loaded from the table without
\* those rows.
C11_BlankMappingFileDropped ==
    (pc = "idle" /\ returned # 0 /\ files.type_mapping.exists) =>
        LET entries == cache.type_mapping_entries
            idx == cache.mapping_by_ips_pattern
        IN  /\ Len(entries) =
                   Len(SelectSeq(files.type_mapping.rows, HasMappingFile))
            /\ \A i \in 1..Len(entries) : entries[i].mapping_file # <<>>
            /\ \A k \in DOMAIN idx : idx[k] # DotCsv
            /\ \A i \in 1..Len(cache.relay_patterns_seq) :
                   cache.relay_patterns_seq[i].mapping_file # DotCsv
            /\ \E csv_files \in GlobCsv(files.mapping_dir.rows) :
                   cache = LoadFrom(DataCache, WithoutBlankStems(files),
                                    csv_files, 1)

C11_Witness ==
    /\ pc = "idle"
    /\ returned # 0
    /\ files.type_mapping.rows = <<<<sB, sB, NaN>>, <<sA, sA, sBlank>>>>
    /\ cache.type_mapping_entries = <<>>
    /\ sB \notin DOMAIN cache.mapping_by_ips_pattern
    /\ \E i \in 1..Len(cache.relay_patterns_seq) :
          /\ cache.relay_patterns_seq[i].pattern = sB
          /\ cache.relay_patterns_seq[i].mapping_file = <<>>
    /\ \E i \in 1..Len(cache.relay_models) :
          /\ cache.relay_models[i].model = sB
          /\ cache.relay_models[i].ips_mapping_file_exists = <<>>

----------------------------------------------------------------------------
(* Properties of the relay-pattern tables *)

\* the records of the list are the groups of the raw rows by pattern: one
\* record per distinct pattern, its population the size of the group, its
\* asset that of the first row of the group
GroupedByPattern(patterns, rows) ==
    /\ {patterns[i].pattern : i \in 1..Len(patterns)} =
           {rows[i][1] : i \in 1..Len(rows)}
    /\ \A i, j \in 1..Len(patterns) :
           patterns[i].pattern = patterns[j].pattern => i = j
    /\ \A i \in 1..Len(patterns) :
           LET group == SelectSeq(rows, LAMBDA r : r[1] = patterns[i].pattern)
           IN  /\ patterns[i].eql_population = Len(group)
               /\ patterns[i].eql_population >= 1
               /\ patterns[i].asset = group[1][2]

\* C12: for each relay-pattern table that is on disk, the source's list has
\* exactly one record per distinct pattern value of the raw rows, with
\* eql_population the number of raw rows having that pattern and asset the
\* asset of the first such row.
C12_OneRecordPerPattern ==
    (pc = "idle" /\ returned # 0) =>
        /\ files.seq.exists =>
               GroupedByPattern(cache.relay_patterns_seq, files.seq.rows)
        /\ files.regional.exists =>
               GroupedByPattern(cache.relay_patterns_regional,
                                files.regional.rows)

\* no patternname cell of the table is missing
NoPatternCellMissing(rows) == \A i \in 1..Len(rows) : rows[i][1] # NaN

\* the grouping holds for the tables in which every row has a pattern
GroupedWhenNoPatternCellMissing ==
    (pc = "idle" /\ returned # 0) =>
        /\ (files.seq.exists /\ NoPatternCellMissing(files.seq.rows)) =>
               GroupedByPattern(cache.relay_patterns_seq, files.seq.rows)
        /\ (files.regional.exists
            /\ NoPatternCellMissing(files.regional.rows)) =>
               GroupedByPattern(cache.relay_patterns_regional,
                                files.regional.rows)

----------------------------------------------------------------------------
(* Properties of the script log *)

\* the line passes the marker check and the parsing checks, and embeds a
\* non-empty list
PassesChecks(line) ==
    /\ line.json = "object"
    /\ line.msg = "marker"
    /\ line.payload = "list"
    /\ line.items # <<>>

\* items of the embedded list without a RESULT key
WithoutResult(items) == SelectSeq(items, LAMBDA it : it.RESULT = Absent)

\* the ScriptRunLog is the one derived from the line: SUBSTATION of the
\* first item or "Unknown", the length of the list, and the share of items
\* without a RESULT key times 100
DerivedFrom(run, line) ==
    /\ run.substation = ItemGet(line.items[1].SUBSTATION, Unknown)
    /\ run.num_transfers = Len(line.items)
    /\ run.success_percentage[1] * Len(line.items) =
           Len(WithoutResult(line.items)) * 100 * run.success_percentage[2]

RunsDerived(runs, lines) ==
    LET passing == SelectSeq(lines, PassesChecks)
    IN  /\ Len(runs) = Len(passing)
        /\ \A i \in 1..Len(runs) : DerivedFrom(runs[i], passing[i])

\* C13: the snapshot has exactly one ScriptRunLog for every line of the log
\* that passes the marker and parsing checks with a non-empty list, in file
\* order, with substation, num_transfers and success_percentage derived
\* from that list.
C13_OneRunPerPassingLine ==
    (pc = "idle" /\ returned # 0 /\ files.log.exists) =>
        RunsDerived(cache.script_run_logs, files.log.rows)

\* the loop over the lines ran to its end
NotInterrupted(lines) ==
    ~ProcessLines([runs |-> <<>>, fails |-> <<>>, raised |-> FALSE],
                  lines).raised

\* the derivation holds for the log files whose processing no exception
\* interrupts
RunsDerivedWhenNotInterrupted ==
    (pc = "idle" /\ returned # 0 /\ files.log.exists
     /\ NotInterrupted(files.log.rows)) =>
        RunsDerived(cache.script_run_logs, files.log.rows)

\* the timestamp a row of the line is to carry: the display form of an
\* ISO-8601 string, any other value as it is, '' when the key is absent
DisplayedTimestamp(ts) ==
    IF IsIso(ts) THEN <<"display", ts[2]>> ELSE ItemGet(ts, <<>>)

\* the RESULT value is present, not null and not blank after trimming
IsFailure(it) ==
    /\ it.RESULT \notin {Absent, PyNone}
    /\ ~(IsStr(it.RESULT) /\ Strip(it.RESULT) = <<>>)

\* one row per failed item of the line, the RESULT trimmed
TrimmedFailedRows(line) ==
    LET failed == SelectSeq(line.items, IsFailure)
    IN  [i \in 1..Len(failed) |->
            FailedTransfer(DisplayedTimestamp(line.ts),
                           ItemGet(failed[i].SUBSTATION, Unknown),
                           ItemGet(failed[i].DEVICE_NAME, Unknown),
                           IF IsStr(failed[i].RESULT)
                           THEN Strip(failed[i].RESULT)
                           ELSE failed[i].RESULT)]

RECURSIVE AllTrimmedFailedRows(_)
AllTrimmedFailedRows(lines) ==
    IF lines = <<>> THEN <<>>
    ELSE (IF PassesChecks(Head(lines)) THEN TrimmedFailedRows(Head(lines))
          ELSE <<>>) \o AllTrimmedFailedRows(Tail(lines))

\* C14: the failed transfers of the snapshot are, line by line, one row for
\* each embedded item whose RESULT is present, non-null and non-blank, with
\* the line's formatted timestamp, the item's SUBSTATION and DEVICE NAME
\* ("Unknown" if absent) and the trimmed RESULT; every result in the
\* snapshot is a non-empty string with no leading or trailing whitespace.
C14_FailedRowsTrimmed ==
    (pc = "idle" /\ returned # 0 /\ files.log.exists) =>
        /\ cache.failed_transfers = AllTrimmedFailedRows(files.log.rows)
        /\ \A i \in 1..Len(cache.failed_transfers) :
               LET result == cache.failed_transfers[i].result
               IN  IsStr(result) /\ result # <<>> /\ Strip(result) = result

\* the RESULT values of the file are strings without surrounding
\* whitespace, or missing
PlainResults(lines) ==
    \A i \in 1..Len(lines) : \A j \in 1..Len(lines[i].items) :
        LET result == lines[i].items[j].RESULT
        IN  result \in {Absent, PyNone}
            \/ (IsStr(result) /\ Strip(result) \in {result, <<>>})

\* the rows are the claimed ones when nothing interrupts the loop and no
\* RESULT needs trimming
FailedRowsWhenPlain ==
    (pc = "idle" /\ returned # 0 /\ files.log.exists
     /\ NotInterrupted(files.log.rows) /\ PlainResults(files.log.rows)) =>
        cache.failed_transfers = AllTrimmedFailedRows(files.log.rows)

\* the number of items a run counts as successful:
\* success_percentage / 100 * num_transfers
SuccessfulOf(run) ==
    (run.success_percentage[1] * run.num_transfers)
        \div (run.success_percentage[2] * 100)

\* items whose RESULT is absent or blank
Successes(items) ==
    SelectSeq(items, LAMBDA it :
        it.RESULT = Absent \/ (IsStr(it.RESULT) /\ Strip(it.RESULT) = <<>>))

\* C15: an item whose RESULT is absent or blank is a success: it gives no
\* FailedTransfer and counts toward success_percentage, so that over the
\* snapshot successful items plus FailedTransfer rows make up the
\* transfers, and the overall success rate of the script-maintenance window
\* equals the weighted percentage of the script-maintenance summary.
C15_BlankResultIsSuccess ==
    (pc = "idle" /\ returned # 0 /\ files.log.exists) =>
        LET runs == cache.script_run_logs
            passing == SelectSeq(files.log.rows, PassesChecks)
        IN  /\ Len(runs) = Len(passing)
            /\ \A i \in 1..Len(runs) :
                   SuccessfulOf(runs[i]) = Len(Successes(passing[i].items))
            /\ SumSeq([i \in 1..Len(runs) |-> SuccessfulOf(runs[i])])
                   + Len(cache.failed_transfers)
                 = SumSeq([i \in 1..Len(runs) |-> runs[i].num_transfers])
            /\ (Len(window.status) = 4 /\ Len(shown.script) = 3) =>
                   window.status[4][1] * shown.script[3][2] =
                       shown.script[3][1] * window.status[4][2]

\* every RESULT of the file is absent or a non-blank string
NoBlankResults(lines) ==
    \A i \in 1..Len(lines) : \A j \in 1..Len(lines[i].items) :
        LET result == lines[i].items[j].RESULT
        IN  result = Absent \/ (IsStr(result) /\ Strip(result) # <<>>)

\* the accounting holds when nothing interrupts the loop and no RESULT is
\* blank or null
AccountingWhenNoBlankResults ==
    (pc = "idle" /\ returned # 0 /\ files.log.exists
     /\ NotInterrupted(files.log.rows) /\ NoBlankResults(files.log.rows)) =>
        LET runs == cache.script_run_logs
        IN  /\ SumSeq([i \in 1..Len(runs) |-> SuccessfulOf(runs[i])])
                   + Len(cache.failed_transfers)
                 = SumSeq([i \in 1..Len(runs) |-> runs[i].num_transfers])
            /\ (Len(window.status) = 4 /\ Len(shown.script) = 3) =>
                   window.status[4][1] * shown.script[3][2] =
                       shown.script[3][1] * window.status[4][2]

----------------------------------------------------------------------------
(* Properties of the summary percentages *)

\* the product of the denominators of the runs' percentages
RECURSIVE Denominators(_)
Denominators(logs) ==
    IF logs = <<>> THEN 1
    ELSE Head(logs).success_percentage[2] * Denominators(Tail(logs))

\* C16: the script-maintenance summary reports the number of ScriptRunLog
\* records and the percentage (sum of the runs' success_percentage times
\* num_transfers) / (sum of num_transfers); runs (10, 50%) and (90, 100%)
\* give 95%; when the transfers sum to 0 it reports 0 and no error.
C16_WeightedSuccess ==
    (pc = "idle" /\ lastOp = "summaries" /\ cache.script_run_logs # <<>>) =>
        LET logs == cache.script_run_logs
            total == SumSeq([i \in 1..Len(logs) |-> logs[i].num_transfers])
            D == Denominators(logs)
            weighted ==
                SumSeq([i \in 1..Len(logs) |->
                    logs[i].success_percentage[1] * logs[i].num_transfers
                        * (D \div logs[i].success_percentage[2])])
        IN  /\ Len(shown.script) = 3
            /\ shown.script[2] = Len(logs)
            /\ shown.script[3][2] > 0
            /\ shown.script[3][1] * (D * total) =
                   weighted * shown.script[3][2]
            /\ total = 0 => shown.script[3][1] = 0
            /\ ([i \in 1..Len(logs) |->
                    <<logs[i].num_transfers, logs[i].success_percentage>>]
                  = <<<<10, <<50, 1>>>>, <<90, <<100, 1>>>>>>) =>
                   shown.script[3][1] = 95 * shown.script[3][2]

C16_Witness ==
    /\ pc = "idle"
    /\ lastOp = "summaries"
    /\ Len(cache.script_run_logs) = 2
    /\ cache.script_run_logs[1].num_transfers = 10
    /\ cache.script_run_logs[2].num_transfers = 90
    /\ shown.script[2] = 2
    /\ shown.script[3][1] = 95 * shown.script[3][2]

\* the zero-transfer case of C16 happens
C16_ZeroTransfers ==
    /\ pc = "idle"
    /\ lastOp = "summaries"
    /\ Len(cache.script_run_logs) = 2
    /\ \A i \in 1..2 : cache.script_run_logs[i].num_transfers = 0
    /\ shown.script[3] = <<0, 1>>

\* the devices of the list, and those of its patterns with a mapping file
Population(patterns) ==
    SumSeq([i \in 1..Len(patterns) |-> patterns[i].eql_population])

MappedPopulation(patterns) ==
    Population(SelectSeq(patterns, LAMBDA p : p.mapping_file # <<>>))

\* the percentage is mapped population / population * 100 of this list,
\* and 0 for an empty list
IsPopulationShare(percentage, patterns) ==
    /\ percentage[2] > 0
    /\ IF patterns = <<>> THEN percentage[1] = 0
       ELSE percentage[1] * Population(patterns) =
                MappedPopulation(patterns) * 100 * percentage[2]

\* C17: the IPS summary reports, for SEQ and for Regional independently,
\* the share of the source's device population (sum of eql_population)
\* whose pattern has a mapping file, not the share of patterns; a source
\* without patterns reports 0 while the other one is still reported.
C17_PopulationShare ==
    (/\ pc = "idle"
     /\ lastOp = "summaries"
     /\ (cache.relay_patterns_seq # <<>>
         \/ cache.relay_patterns_regional # <<>>)) =>
        /\ Len(shown.ips) = 3
        /\ IsPopulationShare(shown.ips[2], cache.relay_patterns_seq)
        /\ IsPopulationShare(shown.ips[3], cache.relay_patterns_regional)

\* two devices of a mapped pattern and one of an unmapped one: two thirds
\* of the devices, half of the patterns; no Regional pattern
C17_Witness ==
    /\ pc = "idle"
    /\ lastOp = "summaries"
    /\ files.seq.rows = <<<<sX, sA>>, <<sA, sA>>, <<sA, sPaddedA>>>>
    /\ cache.relay_patterns_regional = <<>>
    /\ shown.ips[2][1] * 3 = 200 * shown.ips[2][2]
    /\ shown.ips[3][1] = 0

----------------------------------------------------------------------------
(* Properties of the tabular readers *)

\* a str without leading or trailing whitespace
IsTrimmed(v) == IsStr(v) /\ Strip(v) = v

AllTrimmed(records, fields) ==
    \A i \in 1..Len(records) : \A fld \in fields : IsTrimmed(records[i][fld])

\* the fields of the records read with str(...).strip()
StrippedReadersTrimmed(c) ==
    /\ AllTrimmed(c.type_mapping_entries, {"ips", "pf_model", "mapping_file"})
    /\ AllTrimmed(c.relay_models, {"manufacturer", "model", "used_in_eql"})
    /\ AllTrimmed(c.fuse_models, {"fuse", "fuse_type", "eql_standard"})
    /\ \A v \in c.validated_pf_devices \cup c.validated_mapping_files
                 \cup c.fuse_datasheets : IsTrimmed(v) /\ v # <<>>

\* every raw row of the table is in the list under its trimmed pattern,
\* with the mapping file the index has for it
RowsResolved(c, patterns, rows) ==
    \A i \in 1..Len(rows) :
        \E k \in 1..Len(patterns) :
            /\ patterns[k].pattern = CellStr(rows[i][1])
            /\ patterns[k].mapping_file =
                   DictGet(c.mapping_by_ips_pattern, CellStr(rows[i][1]), <<>>)

\* C18: every string field of every record of a tabular reader, and every
\* member of a validation set, has no leading or trailing whitespace; a
\* missing cell is read as the empty string and drops no row; a relay
\* pattern that differs from a type-mapping IPS only by surrounding
\* whitespace gets that entry's mapping file.
C18_FieldsTrimmed ==
    (pc = "idle" /\ returned # 0) =>
        /\ StrippedReadersTrimmed(cache)
        /\ AllTrimmed(cache.relay_patterns_seq, {"pattern", "asset"})
        /\ AllTrimmed(cache.relay_patterns_regional, {"pattern", "asset"})
        /\ files.seq.exists =>
               RowsResolved(cache, cache.relay_patterns_seq, files.seq.rows)
        /\ files.regional.exists =>
               RowsResolved(cache, cache.relay_patterns_regional,
                            files.regional.rows)

\* the readers other than the relay-pattern reader trim their fields
OtherReadersTrimmed ==
    (pc = "idle" /\ returned # 0) => StrippedReadersTrimmed(cache)

----------------------------------------------------------------------------
(* Properties of the timestamps *)

TimestampsOf(records) == [i \in 1..Len(records) |-> records[i].timestamp]

\* the rows of every passing line are in the snapshot, each with the
\* displayed form of the line's timestamp
TimestampsKept(c, lines) ==
    LET passing == SelectSeq(lines, PassesChecks)
    IN  /\ TimestampsOf(c.script_run_logs) =
               [i \in 1..Len(passing) |-> DisplayedTimestamp(passing[i].ts)]
        /\ TimestampsOf(c.failed_transfers) =
               TimestampsOf(AllTrimmedFailedRows(lines))

\* C19: whatever the timestamp of a valid marker line is (malformed text,
\* absent, null, a number), the line is not dropped and the load does not
\* stop: its ScriptRunLog and FailedTransfer rows are in the snapshot with
\* the original timestamp value; an ISO-8601 timestamp, Z-suffixed or not,
\* is shown reformatted.
C19_TimestampNeverDropsLine ==
    (pc = "idle" /\ returned # 0 /\ files.log.exists) =>
        TimestampsKept(cache, files.log.rows)

\* the timestamps are kept when nothing interrupts the loop
TimestampsKeptWhenNotInterrupted ==
    (pc = "idle" /\ returned # 0 /\ files.log.exists
     /\ NotInterrupted(files.log.rows)) =>
        TimestampsKept(cache, files.log.rows)

----------------------------------------------------------------------------
(* Properties of the pattern lookup *)

\* the record's mapping_file is the index value of its pattern, and is
\* empty exactly when the pattern is no key of the index
ResolvedByIndex(idx, patterns) ==
    \A i \in 1..Len(patterns) :
        /\ patterns[i].pattern \in DOMAIN idx =>
               patterns[i].mapping_file = idx[patterns[i].pattern]
        /\ patterns[i].mapping_file = <<>> <=>
               patterns[i].pattern \notin DOMAIN idx

\* C20: the keys of the ips index are the non-empty IPS values of the
\* retained entries, each mapped to the stem of the last entry with that
\* IPS plus '.csv'; every RelayPattern.mapping_file is the index value of
\* its pattern, matched as an exact string, and empty iff there is none.
C20_LastEntryWins ==
    (pc = "idle" /\ returned # 0) =>
        LET entries == cache.type_mapping_entries
            idx == cache.mapping_by_ips_pattern
        IN  /\ DOMAIN idx =
                   {entries[i].ips : i \in 1..Len(entries)} \ {<<>>}
            /\ \A x \in DOMAIN idx : idx[x] = LastStemOf(entries, x) \o DotCsv
            /\ ResolvedByIndex(idx, cache.relay_patterns_seq)
            /\ ResolvedByIndex(idx, cache.relay_patterns_regional)

\* IPS 'a' in two rows, the second one padded: the later stem wins, and
\* pattern 'a' resolves to it while pattern 'b' resolves to nothing
C20_Witness ==
    /\ pc = "idle"
    /\ returned # 0
    /\ files.type_mapping.rows = <<<<sA, sA, sX>>, <<sPaddedA, sB, sA>>>>
    /\ cache.mapping_by_ips_pattern[sA] = sA \o DotCsv
    /\ \E i \in 1..Len(cache.relay_patterns_seq) :
          /\ cache.relay_patterns_seq[i].pattern = sA
          /\ cache.relay_patterns_seq[i].mapping_file = sA \o DotCsv
    /\ \E i \in 1..Len(cache.relay_patterns_seq) :
          /\ cache.relay_patterns_seq[i].pattern = sB
          /\ cache.relay_patterns_seq[i].mapping_file = <<>>

----------------------------------------------------------------------------
(* Properties of the mapping files *)

\* the rows, in file order, of the entries that name the stem and have a
\* value in the field
RowsNaming(entries, stem, field) ==
    {i \in 1..Len(entries) :
        entries[i].mapping_file = stem /\ entries[i][field] # <<>>}

\* the first row naming the stem whose field is v
FirstRow(entries, stem, field, v) ==
    CHOOSE i \in RowsNaming(entries, stem, field) :
        /\ entries[i][field] = v
        /\ \A j \in RowsNaming(entries, stem, field) :
               entries[j][field] = v => i <= j

\* list is the values of the field in the entries naming the stem, without
\* duplicates, in the order of their first rows
IsFirstSeenList(list, entries, stem, field) ==
    /\ Range(list) =
           {entries[i][field] : i \in RowsNaming(entries, stem, field)}
    /\ \A i, j \in 1..Len(list) :
           i < j => FirstRow(entries, stem, field, list[i])
                        < FirstRow(entries, stem, field, list[j])

\* C21: for every MappingFile of the snapshot, ips_patterns and pf_models
\* are the non-empty ips and pf_model values of the type-mapping entries
\* whose mapping_file is the file's stem (compared as exact strings, case
\* included), without duplicates and in first-seen row order; both are
\* empty for a file no entry names.
C21_ListsFromMatchingEntries ==
    (pc = "idle" /\ returned # 0) =>
        \A k \in 1..Len(cache.mapping_files) :
            LET mf == cache.mapping_files[k]
                entries == cache.type_mapping_entries
                stem == Stem(mf.filename)
            IN  /\ IsFirstSeenList(mf.ips_patterns, entries, stem, "ips")
                /\ IsFirstSeenList(mf.pf_models, entries, stem, "pf_model")
                /\ (\A i \in 1..Len(entries) : entries[i].mapping_file # stem)
                       => (mf.ips_patterns = <<>> /\ mf.pf_models = <<>>)

\* two rows name stem 'x' with IPS 'b' then 'a' and the same PF model; an
\* entry names stem 'b' but the file is 'B.csv'
C21_Witness ==
    /\ pc = "idle"
    /\ returned # 0
    /\ \E k \in 1..Len(cache.mapping_files) :
          /\ cache.mapping_files[k].filename = sX \o DotCsv
          /\ cache.mapping_files[k].ips_patterns = <<sB, sA>>
          /\ cache.mapping_files[k].pf_models = <<sA>>
    /\ \E k \in 1..Len(cache.mapping_files) :
          /\ cache.mapping_files[k].filename = sUpperB \o DotCsv
          /\ cache.mapping_files[k].ips_patterns = <<>>

\* an entry names stem 'b' and the directory holds 'B.csv'
C21_CaseDiffers ==
    /\ pc = "idle"
    /\ returned # 0
    /\ \E i \in 1..Len(cache.type_mapping_entries) :
          cache.type_mapping_entries[i].mapping_file = sB
    /\ \E k \in 1..Len(cache.mapping_files) :
          /\ cache.mapping_files[k].filename = sUpperB \o DotCsv
          /\ cache.mapping_files[k].ips_patterns = <<>>
          /\ cache.mapping_files[k].pf_models = <<>>

\* C22: in every snapshot the filenames of mapping_files are pairwise
\* distinct and the list is in non-decreasing order of the lower-cased
\* filename.
C22_MappingFilesSorted ==
    \A i, j \in 1..Len(cache.mapping_files) :
        i < j =>
            /\ cache.mapping_files[i].filename # cache.mapping_files[j].filename
            /\ ~StrLess(Lower(cache.mapping_files[j].filename),
                        Lower(cache.mapping_files[i].filename))

\* 'B.csv' is listed between 'a.csv' and 'x.csv'
C22_Witness ==
    /\ pc = "idle"
    /\ lastOp = "refresh"
    /\ [k \in 1..Len(cache.mapping_files) |-> cache.mapping_files[k].filename]
          = <<sA \o DotCsv, sUpperB \o DotCsv, sX \o DotCsv>>

----------------------------------------------------------------------------
(* Properties of the model lookup *)

\* the rows of the entries that reference the PF model
RowsReferencing(entries, model) ==
    {i \in 1..Len(entries) : entries[i].pf_model = model}

\* the first row referencing the model whose filename is name
FirstReference(entries, model, name) ==
    CHOOSE i \in RowsReferencing(entries, model) :
        /\ entries[i].mapping_file \o DotCsv = name
        /\ \A j \in RowsReferencing(entries, model) :
               entries[j].mapping_file \o DotCsv = name => i <= j

\* C23: the keys of the pf_model index are the non-empty PF_MODEL values of
\* the retained entries; each is mapped to the filenames (stem + '.csv') of
\* the entries referencing it, without duplicates, in first-seen row order;
\* ips_mapping_file_exists of every RelayModel is that list (joined with
\* ', ') for its trimmed model, and empty iff no entry references it.
C23_ModelIndex ==
    (pc = "idle" /\ returned # 0) =>
        LET entries == cache.type_mapping_entries
            idx == cache.mapping_by_pf_model
        IN  /\ DOMAIN idx =
                   {entries[i].pf_model : i \in 1..Len(entries)} \ {<<>>}
            /\ \A m \in DOMAIN idx :
                   /\ Range(idx[m]) =
                          {entries[i].mapping_file \o DotCsv :
                              i \in RowsReferencing(entries, m)}
                   /\ \A i, j \in 1..Len(idx[m]) :
                          i < j => FirstReference(entries, m, idx[m][i])
                                       < FirstReference(entries, m, idx[m][j])
            /\ \A k \in 1..Len(cache.relay_models) :
                   LET rm == cache.relay_models[k]
                   IN  /\ rm.ips_mapping_file_exists =
                              Join(DictGet(idx, rm.model, <<>>))
                       /\ rm.ips_mapping_file_exists = <<>> <=>
                              rm.model \notin DOMAIN idx

\* PF model 'b' is referenced by an entry of 'a' and then one of 'x': the
\* relay model 'b' shows 'a.csv, x.csv'; the model read as ' a ' is looked
\* up as 'a' and shows nothing
C23_Witness ==
    /\ pc = "idle"
    /\ returned # 0
    /\ sB \in DOMAIN cache.mapping_by_pf_model
    /\ cache.mapping_by_pf_model[sB] = <<sA \o DotCsv, sX \o DotCsv>>
    /\ \E k \in 1..Len(cache.relay_models) :
          /\ cache.relay_models[k].model = sB
          /\ cache.relay_models[k].ips_mapping_file_exists =
                 sA \o DotCsv \o <<",", " ">> \o sX \o DotCsv
    /\ \E k \in 1..Len(cache.relay_models) :
          /\ cache.relay_models[k].model = sA
          /\ cache.relay_models[k].ips_mapping_file_exists = <<>>

----------------------------------------------------------------------------
(* Properties of the validation flags *)

\* the trimmed, non-empty values of the first column of the file
FirstColumnValues(file) ==
    IF ~file.exists THEN {}
    ELSE {Strip(file.rows[i]) :
             i \in {k \in 1..Len(file.rows) : file.rows[k] # NaN}} \ {<<>>}

\* C24: every validation flag is set exactly when the record's key is in
\* the validation set of the snapshot: model_validated for the model in
\* validated_pf_devices, MappingFile.validated for the stem in
\* validated_mapping_files, fuse_datasheet for the fuse in fuse_datasheets;
\* after a load each set holds exactly the trimmed, non-empty first-column
\* values of its file.
C24_FlagsAreMembership ==
    /\ \A k \in 1..Len(cache.relay_models) :
           cache.relay_models[k].model_validated =
               IF cache.relay_models[k].model \in cache.validated_pf_devices
               THEN Yes ELSE <<>>
    /\ \A k \in 1..Len(cache.mapping_files) :
           cache.mapping_files[k].validated =
               IF Stem(cache.mapping_files[k].filename)
                      \in cache.validated_mapping_files
               THEN Yes ELSE <<>>
    /\ \A k \in 1..Len(cache.fuse_models) :
           cache.fuse_models[k].fuse_datasheet =
               IF cache.fuse_models[k].fuse \in cache.fuse_datasheets
               THEN Yes ELSE <<>>
    /\ (pc = "idle" /\ returned # 0 /\ ~dirty) =>
           /\ cache.validated_pf_devices =
                  FirstColumnValues(files.pf_validation)
           /\ cache.validated_mapping_files =
                  FirstColumnValues(files.mapping_validation)
           /\ cache.fuse_datasheets = FirstColumnValues(files.fuse_datasheet)

\* model 'a' validated and 'b' not, 'B.csv' and 'x.csv' validated and
\* 'a.csv' not, fuse 'a' with a datasheet listed as ' a ' and 'b' without
C24_Witness ==
    /\ pc = "idle"
    /\ returned # 0
    /\ files.fuse_datasheet.rows = <<sA, NaN, sBlank>>
    /\ [k \in 1..Len(cache.relay_models) |->
            cache.relay_models[k].model_validated] = <<Yes, <<>> >>
    /\ [k \in 1..Len(cache.mapping_files) |->
            cache.mapping_files[k].validated] = << <<>>, Yes, Yes >>
    /\ [k \in 1..Len(cache.fuse_models) |->
            cache.fuse_models[k].fuse_datasheet] = <<Yes, <<>> >>

----------------------------------------------------------------------------
(* Properties of a load without the type-mapping table *)

\* the records of the list without the fields joined from the type mapping
Membership(records, fields) ==
    [i \in 1..Len(records) |-> [fld \in fields |-> records[i][fld]]]

\* the two snapshots hold the same records, joins aside
SameMembership(c, d) ==
    /\ \A list \in {"relay_patterns_seq", "relay_patterns_regional"} :
           Membership(c[list], {"pattern", "asset", "eql_population", "source"})
               = Membership(d[list],
                            {"pattern", "asset", "eql_population", "source"})
    /\ Membership(c.mapping_files, {"filename", "validated"})
           = Membership(d.mapping_files, {"filename", "validated"})
    /\ Membership(c.relay_models,
                  {"manufacturer", "model", "used_in_eql", "model_validated"})
           = Membership(d.relay_models,
                  {"manufacturer", "model", "used_in_eql", "model_validated"})
    /\ c.fuse_models = d.fuse_models
    /\ c.script_run_logs = d.script_run_logs
    /\ c.failed_transfers = d.failed_transfers

OnlyTypeMappingMissing(f) ==
    \A s \in Sources : f[s].exists <=> s # "type_mapping"

\* C25: with only the type-mapping table missing the load completes, the
\* relay patterns, mapping files, relay models, fuse models and log rows are
\* those loaded with the table present, and every join is empty: both
\* indexes, every RelayPattern.mapping_file, every MappingFile's
\* ips_patterns and pf_models, every RelayModel.ips_mapping_file_exists.
C25_NoTypeMappingNoMatches ==
    /\ OnlyTypeMappingMissing(files) => pc # "raised"
    /\ (pc = "idle" /\ returned # 0 /\ OnlyTypeMappingMissing(files)) =>
        /\ \E csv_files \in GlobCsv(files.mapping_dir.rows) :
               SameMembership(cache,
                   LoadFrom(DataCache,
                            [files EXCEPT !.type_mapping =
                                FullDisk.type_mapping],
                            csv_files, 1))
        /\ DOMAIN cache.mapping_by_ips_pattern = {}
        /\ DOMAIN cache.mapping_by_pf_model = {}
        /\ \A list \in {"relay_patterns_seq", "relay_patterns_regional"} :
               \A i \in 1..Len(cache[list]) :
                   cache[list][i].mapping_file = <<>>
        /\ \A k \in 1..Len(cache.mapping_files) :
               /\ cache.mapping_files[k].ips_patterns = <<>>
               /\ cache.mapping_files[k].pf_models = <<>>
        /\ \A k \in 1..Len(cache.relay_models) :
               cache.relay_models[k].ips_mapping_file_exists = <<>>

C25_Witness ==
    /\ pc = "idle"
    /\ lastOp = "refresh"
    /\ OnlyTypeMappingMissing(files)
    /\ Len(cache.relay_patterns_seq) = 2
    /\ Len(cache.relay_patterns_regional) = 2
    /\ Len(cache.mapping_files) = 3
    /\ Len(cache.relay_models) = 2
    /\ Len(cache.fuse_models) = 2
    /\ Len(cache.script_run_logs) = 2

----------------------------------------------------------------------------
(* Properties of the read operations *)

\* how many times the record occurs in the list
Occurrences(list, r) == Cardinality({i \in 1..Len(list) : list[i] = r})

\* the rows of the table as pd.read_csv counts them, none for a missing file
RawRowCount(file) == IF file.exists THEN Len(file.rows) ELSE 0

\* the snapshot the read started from holds what the page was handed
ReadMatchesSnapshot ==
    LET selected ==
            (IF got.flags[1] THEN cache.relay_patterns_seq ELSE <<>>)
            \o (IF got.flags[2] THEN cache.relay_patterns_regional ELSE <<>>)
    IN  /\ Len(got.patterns) = Len(selected)
        /\ \A i \in 1..Len(selected) :
               Occurrences(got.patterns, selected[i])
                   = Occurrences(selected, selected[i])
        /\ \A i \in 1..Len(got.patterns) - 1 :
               got.patterns[i].eql_population
                   >= got.patterns[i + 1].eql_population
        /\ got.total = (IF got.flags[1] THEN RawRowCount(files.seq) ELSE 0)
                       + (IF got.flags[2] THEN RawRowCount(files.regional)
                          ELSE 0)

ReadOperation == ReadRelayPatterns \/ ReadSummaries \/ OpenScriptMaintenance

\* C26: get_relay_patterns returns exactly the records of the sources
\* selected (none when neither is), by eql_population non-increasing,
\* get_ips_total_records returns the sum of their raw row counts, and these
\* and the other read and summary operations leave every field of the
\* snapshot as it was, the cached per-source lists and their order included.
C26_ReadsReturnSelectionAndKeepSnapshot ==
    /\ [](lastOp = "patterns" => ReadMatchesSnapshot)
    /\ [][ReadOperation =>
              UNCHANGED <<cache, files, instance, initialized>>]_vars

\* both sources ticked, a Regional record sorted before a SEQ record
C26_Witness ==
    /\ lastOp = "patterns"
    /\ got.flags = <<TRUE, TRUE>>
    /\ Len(got.patterns) = 4
    /\ got.patterns[1].source = "Regional"
    /\ got.patterns[1].eql_population = 2
    /\ got.patterns[2].source = "SEQ"
    /\ got.total = 5
    /\ Len(cache.relay_patterns_seq) = 2
    /\ cache.relay_patterns_seq[1].source = "SEQ"

\* neither source ticked: nothing is returned
C26_NothingSelected ==
    /\ lastOp = "patterns"
    /\ got.flags = <<FALSE, FALSE>>
    /\ got.patterns = <<>>
    /\ got.total = 0
    /\ cache.relay_patterns_seq # <<>>

----------------------------------------------------------------------------
(* Properties of the stored record counts *)

CountMatchesList(patterns, total_records) ==
    /\ Population(patterns) = total_records
    /\ total_records # 0 => patterns # <<>>

\* C27: in every snapshot and for each source the eql_population of the
\* source's records adds up to the total-record count stored for the
\* source, so the count is non-zero only when the list is non-empty,
\* whatever the table holds, rows with a missing pattern cell included.
C27_CountIsSumOfPopulations ==
    /\ CountMatchesList(cache.relay_patterns_seq,
                        cache.ips_total_records_seq)
    /\ CountMatchesList(cache.relay_patterns_regional,
                        cache.ips_total_records_regional)

\* the counts match for the tables in which every row has a pattern
CountMatchesWhenNoPatternCellMissing ==
    /\ (files.seq.exists => NoPatternCellMissing(files.seq.rows)) =>
           CountMatchesList(cache.relay_patterns_seq,
                            cache.ips_total_records_seq)
    /\ (files.regional.exists
        => NoPatternCellMissing(files.regional.rows)) =>
           CountMatchesList(cache.relay_patterns_regional,
                            cache.ips_total_records_regional)

\* a table read with a missing pattern cell: rows counted, no record
C27_CountWithoutRecords ==
    /\ pc = "idle"
    /\ returned # 0
    /\ cache.ips_total_records_seq = 2
    /\ cache.relay_patterns_seq = <<>>

----------------------------------------------------------------------------
(* Properties of the script-log statistics *)

\* C28: in every snapshot script_log_stats.total_runs is the length of
\* script_run_logs and script_log_stats.total_failures is the length of
\* failed_transfers, whatever the log file holds, a file in which an
\* unexpected error interrupts the processing after some lines were
\* accepted included.
C28_StatsAreLengths ==
    /\ cache.script_log_stats.total_runs = Len(cache.script_run_logs)
    /\ cache.script_log_stats.total_failures = Len(cache.failed_transfers)

\* the statistics are the lengths when no line interrupts the processing
StatsAreLengthsWhenNotInterrupted ==
    (files.log.exists => NotInterrupted(files.log.rows)) =>
        /\ cache.script_log_stats.total_runs = Len(cache.script_run_logs)
        /\ cache.script_log_stats.total_failures =
               Len(cache.failed_transfers)

\* an interrupted load: a run and a failed transfer kept, none counted
C28_KeptButNotCounted ==
    /\ pc = "idle"
    /\ returned # 0
    /\ cache.script_log_stats = [total_runs |-> 0, total_failures |-> 0]
    /\ Len(cache.script_run_logs) = 1
    /\ Len(cache.failed_transfers) = 1

----------------------------------------------------------------------------
(* Properties of the names the joins resolve to *)

\* the position of the first ', ' of the string, 0 if there is none
RECURSIVE SeparatorFrom(_, _)
SeparatorFrom(str, i) ==
    IF i >= Len(str) THEN 0
    ELSE IF str[i] = "," /\ str[i + 1] = " " THEN i
    ELSE SeparatorFrom(str, i + 1)

\* the names a ', '-joined string lists
RECURSIVE ListedNames(_)
ListedNames(str) ==
    IF str = <<>> THEN {}
    ELSE LET i == SeparatorFrom(str, 1)
         IN  IF i = 0 THEN {str}
             ELSE {SubSeq(str, 1, i - 1)}
                  \cup ListedNames(SubSeq(str, i + 2, Len(str)))

\* every name the relay patterns and relay models of the snapshot resolve
\* to is one of the names
JoinsResolveWithin(c, names) ==
    /\ \A list \in {"relay_patterns_seq", "relay_patterns_regional"} :
           \A i \in 1..Len(c[list]) :
               c[list][i].mapping_file # <<>> =>
                   c[list][i].mapping_file \in names
    /\ \A k \in 1..Len(c.relay_models) :
           ListedNames(c.relay_models[k].ips_mapping_file_exists)
               \subseteq names

DiscoveredNames(c) ==
    {c.mapping_files[k].filename : k \in 1..Len(c.mapping_files)}

TypeMappingNames(c) ==
    {c.type_mapping_entries[i].mapping_file \o DotCsv :
        i \in 1..Len(c.type_mapping_entries)}

\* the claim as stated: every name resolved is the filename of a
\* MappingFile of the snapshot, a file discovered in the mapping directory
C29_Original ==
    (pc = "idle" /\ returned # 0) =>
        JoinsResolveWithin(cache, DiscoveredNames(cache))

\* C29: in every snapshot every non-empty RelayPattern.mapping_file and
\* every filename listed in a RelayModel.ips_mapping_file_exists is
\* Z + '.csv' for the MAPPING_FILE Z of some retained type-mapping row of
\* the snapshot; a file of that name need not be in the mapping directory.
C29_JoinsNameTypeMappingRows ==
    JoinsResolveWithin(cache, TypeMappingNames(cache))

\* a pattern and a model resolved to 'x.csv', only 'a.csv' discovered
C29_Witness ==
    /\ pc = "idle"
    /\ returned # 0
    /\ DiscoveredNames(cache) = {sA \o DotCsv}
    /\ \E i \in 1..Len(cache.relay_patterns_seq) :
           cache.relay_patterns_seq[i].mapping_file = sX \o DotCsv
    /\ \E k \in 1..Len(cache.relay_models) :
           (sX \o DotCsv)
               \in ListedNames(cache.relay_models[k].ips_mapping_file_exists)

\* a model resolved to two names, one of them not discovered
C29_TwoNamesListed ==
    /\ pc = "idle"
    /\ returned # 0
    /\ DiscoveredNames(cache) = {sA \o DotCsv}
    /\ \E k \in 1..Len(cache.relay_models) :
           ListedNames(cache.relay_models[k].ips_mapping_file_exists)
               = {sA \o DotCsv, sX \o DotCsv}

----------------------------------------------------------------------------
(* Properties of the ScriptRunLog records a load produces *)

TotalTransfers(logs) ==
    SumSeq([i \in 1..Len(logs) |-> logs[i].num_transfers])

\* C30: every ScriptRunLog of a snapshot has num_transfers >= 1 and a
\* success_percentage from 0 to 100, so whenever the script-maintenance
\* summary sees a run the transfers add up to a positive number and the
\* branch for no transfers is not taken.
C30_RunsHaveTransfers ==
    LET logs == cache.script_run_logs
    IN  /\ \A i \in 1..Len(logs) :
               /\ logs[i].num_transfers >= 1
               /\ logs[i].success_percentage[2] > 0
               /\ logs[i].success_percentage[1] >= 0
               /\ logs[i].success_percentage[1]
                      <= 100 * logs[i].success_percentage[2]
        /\ logs # <<>> => TotalTransfers(logs) > 0
        /\ (pc = "idle" /\ lastOp = "summaries" /\ logs # <<>>) =>
               /\ Len(shown.script) = 3
               /\ shown.script[3] =
                      Float(WeightedSum(logs)[1] * 100,
                            WeightedSum(logs)[2] * TotalTransfers(logs))
        /\ lastOp = "window" => Len(window.status) # 2

\* the summary of two runs, one with every transfer failed
C30_Witness ==
    /\ lastOp = "summaries"
    /\ Len(cache.script_run_logs) = 2
    /\ cache.script_run_logs[1].success_percentage[1] = 0
    /\ cache.script_run_logs[2].num_transfers = 2
    /\ cache.script_run_logs[2].success_percentage = <<100, 2>>
    /\ Len(shown.script) = 3
    /\ shown.script[3][1] * 3 = 100 * shown.script[3][2]

====
